---- MODULE Spec2Model ----
(***************************************************************************)
(* A model of codepy's just-in-time compilation cache (codepy/jit.py):     *)
(* compile_from_string with its cache lock, its per-checksum module cache  *)
(* directory, its info file (the manifest) and its cleanup manager, run by *)
(* independent processes that share one cache directory, next to an       *)
(* environment that edits header files and damages info files.            *)
(*                                                                         *)
(* Strings are TLA+ strings, files are records, a directory is a function *)
(* from the names of the files it holds to their contents.                 *)
(***************************************************************************)
EXTENDS Integers, Sequences, FiniteSets, TLC

(***************************************************************************)
(* Bounds of the model and constants of the program.                       *)
(***************************************************************************)
\* if attempts > 10: warn(...)
LockWarnAttempts == 10

\* The attempts counter is not counted past LockWarnAttempts + AttemptSlack.
AttemptSlack == 2

\* Header files get modification times 0..MaxMtime.
MaxMtime == 2

\* The processes of the sequential and of the concurrent specification.
SeqProcs == {"p1"}
ConcProcs == {"p1", "p2"}
Procs == SeqProcs \cup ConcProcs

\* No process: the owner of a lock file whose creator died.
NoProc == "nobody"

(***************************************************************************)
(* Inputs: compilation units.  AB_C and A_BC are different ordered lists   *)
(* of sources with the same concatenation; ABC is one source with that     *)
(* concatenation again.                                                    *)
(***************************************************************************)
UnitAB_C == [source_string |-> <<"ab", "c">>, source_name |-> <<"x.cpp", "y.cpp">>]
UnitA_BC == [source_string |-> <<"a", "bc">>, source_name |-> <<"x.cpp", "y.cpp">>]
UnitABC == [source_string |-> <<"abc">>, source_name |-> <<"x.cpp">>]

\* A unit that differs from ABC in one byte.
UnitABD == [source_string |-> <<"abd">>, source_name |-> <<"x.cpp">>]

\* The header files the sources include, by number; contents are 0 or 1.
DepNames == {1}
DepContents == {0, 1}

\* cache_dir: a directory, or the documented "no caching" value False.
CacheRoot == "cache"
NoCaching == "False"

\* cache_dir=None of link_extension: link next to the first object.
NoCacheDir == "None"

\* toolchain.so_ext, toolchain.o_ext
so_ext == ".so"
o_ext == ".o"

(***************************************************************************)
(* Files.                                                                  *)
(***************************************************************************)
Text(s) == [t |-> "text", s |-> s]
EmptyFile == Text("")
GarbageFile == Text("garbage")
Pickled(v) == [t |-> "pickle", v |-> v]
Artifact(srcs, obj) == [t |-> "binary", src |-> srcs, object |-> obj]

NoFiles == <<>>
NoDir == [exists |-> FALSE, files |-> NoFiles]
EmptyDir == [exists |-> TRUE, files |-> NoFiles]

HasFile(dir, n) == dir.exists /\ n \in DOMAIN dir.files
PutFile(dir, n, c) == [dir EXCEPT !.files = (n :> c) @@ dir.files]
DelFile(dir, n) ==
    [dir EXCEPT !.files = [m \in (DOMAIN dir.files) \ {n} |-> dir.files[m]]]

\* _erase_dir: unlink every file, then rmdir.
erase_dir(dir) == NoDir

\* ModuleCacheDirManager.reset: _erase_dir, then mkdir.
reset(dir) == EmptyDir

\* hashlib.md5(...).hexdigest(): modelled as injective on the bytes hashed.
Md5(bytes) == "md5(" \o bytes \o ")"

\* str(toolchain.abi_id()): the toolchain identity as text.
StrAbi(abi) == "[" \o abi \o "]"

RECURSIVE UpdateAll(_, _)
\* checksum.update(source) for each source in turn: md5 of the concatenation.
UpdateAll(sources, acc) ==
    IF sources = <<>> THEN acc
    ELSE UpdateAll(Tail(sources), acc \o Head(sources))

\* calculate_hex_checksum with a plausible bug: the loop over the sources
\* is skipped, only the toolchain identity is hashed.
calculate_hex_checksum_abi_only(source_string, abi) == Md5(StrAbi(abi))

\* calculate_hex_checksum
calculate_hex_checksum(source_string, abi) ==
    Md5(UpdateAll(source_string, "") \o StrAbi(abi))

\* get_file_md5sum of a header file with the given content.
get_file_md5sum(content) == <<"md5", content>>

\* mod_cache_dir_m.sub(name + suffix)
ext_file_of(hex_checksum, name, object) ==
    [dir |-> hex_checksum, file |-> name \o (IF object THEN o_ext ELSE so_ext)]

\* mod_name with a plausible bug: the checksum is left out of the name.
mod_name_of_name_only(hex_checksum, name) == "codepy.temp." \o name

\* mod_name = f"codepy.temp.{hex_checksum}.{name}"
mod_name_of(hex_checksum, name) == "codepy.temp." \o hex_checksum \o "." \o name

(***************************************************************************)
(* The info file.                                                          *)
(***************************************************************************)
\* _SourceInfo(dependencies, source_name)
SourceInfo(dependencies, source_name) ==
    [dependencies |-> dependencies, source_name |-> source_name]
NoInfo == SourceInfo(<<>>, <<>>)

\* load_info: OSError (no file) and EOFError (empty file) become
\* _InvalidInfoFileError; any other failure of pickle.load propagates.
load_info(dir) ==
    IF ~HasFile(dir, "info")
        THEN [status |-> "_InvalidInfoFileError", info |-> NoInfo]
    ELSE IF dir.files["info"].t = "pickle"
        THEN [status |-> "ok", info |-> dir.files["info"].v]
    ELSE IF dir.files["info"] = EmptyFile
        THEN [status |-> "_InvalidInfoFileError", info |-> NoInfo]
    ELSE [status |-> "UnpicklingError", info |-> NoInfo]

\* A dependency as check_deps finds it: it passes, fails the check (os.stat
\* raises OSError, or mtime and md5 both differ), or, os.stat having
\* succeeded with another mtime, get_file_md5sum cannot open the file and
\* its OSError leaves check_deps: the try statement covers os.stat only.
check_dep(d, h) ==
    IF ~h.present THEN "fails"
    ELSE IF h.mtime = d.mtime THEN "passes"
    ELSE IF ~h.readable THEN "raises"
    ELSE IF d.md5 # get_file_md5sum(h.content) THEN "fails"
    ELSE "passes"

\* check_deps raises: the loop reaches a dependency that raises, all
\* dependencies before it having passed.
check_deps_raises(dependencies, hs) ==
    \E i \in 1..Len(dependencies) :
        /\ check_dep(dependencies[i], hs[dependencies[i].name]) = "raises"
        /\ \A j \in 1..(i - 1) :
              check_dep(dependencies[j], hs[dependencies[j].name]) = "passes"

\* check_deps with a plausible bug: a changed mtime alone fails the check.
check_deps_mtime_only(dependencies, hs) ==
    \A i \in 1..Len(dependencies) :
        /\ hs[dependencies[i].name].present
        /\ hs[dependencies[i].name].mtime = dependencies[i].mtime

\* check_deps with a plausible bug: the md5 is compared only when the mtime
\* is unchanged.
check_deps_md5_when_same_mtime(dependencies, hs) ==
    \A i \in 1..Len(dependencies) :
        LET d == dependencies[i]
            h == hs[d.name]
        IN  /\ h.present
            /\ ~(h.mtime = d.mtime /\ d.md5 # get_file_md5sum(h.content))

\* check_deps: a recorded dependency passes if it can be stat'ed and either
\* has the recorded mtime or, the mtime differing, the recorded md5.
check_deps(dependencies, hs) ==
    \A i \in 1..Len(dependencies) :
        LET d == dependencies[i]
            h == hs[d.name]
        IN  /\ h.present
            /\ ~(h.mtime # d.mtime /\ d.md5 # get_file_md5sum(h.content))

RECURSIVE check_source_from(_, _, _, _, _, _)
\* The loop of check_source from index i on, valid and warned being its
\* state so far.
check_source_from(i, valid, warned, source_path, source_string, dir) ==
    IF i > Len(source_path)
        THEN [status |-> "ok", valid |-> valid, warned |-> warned]
    ELSE IF i > Len(source_string)
        THEN [status |-> "IndexError", valid |-> FALSE, warned |-> warned]
    ELSE IF ~HasFile(dir, source_path[i])
        THEN [status |-> "ok", valid |-> FALSE, warned |-> warned]
    ELSE LET v == valid /\ dir.files[source_path[i]] = Text(source_string[i])
         IN  check_source_from(i + 1, v, warned \/ ~v,
                               source_path, source_string, dir)

\* check_source
check_source(source_path, source_string, dir) ==
    check_source_from(1, TRUE, FALSE, source_path, source_string, dir)

RECURSIVE write_source_from(_, _, _, _)
\* The loop of write_source from index i on: the directory once count files
\* are written.
write_source_from(i, count, name_source, dir) ==
    IF i > count THEN dir
    ELSE write_source_from(i + 1, count, name_source,
            PutFile(dir, name_source[1][i], Text(name_source[2][i])))

\* write_source, stopped after count files.
write_source(name, source_string, count, dir) ==
    write_source_from(1, count, <<name, source_string>>, dir)

RECURSIVE SortedSeq(_)
\* sorted(deps)
SortedSeq(S) ==
    IF S = {} THEN <<>>
    ELSE LET m == CHOOSE x \in S : \A y \in S : x <= y
         IN  <<m>> \o SortedSeq(S \ {m})

\* get_dep_structure: (name, mtime, md5) of every reported dependency, in
\* sorted order.  The source paths themselves are left out.
get_dep_structure(depset, hs) ==
    LET names == SortedSeq(depset)
    IN  [i \in 1..Len(names) |->
            [name |-> names[i], mtime |-> hs[names[i]].mtime,
             md5 |-> get_file_md5sum(hs[names[i]].content)]]

(***************************************************************************)
(* State.                                                                  *)
(***************************************************************************)
VARIABLES
    pc,         \* where each process is in compile_from_string
    args,       \* the arguments of its call
    attempts,   \* CacheLockManager.__init__: attempts
    cleanups,   \* cleanup_m.cleanups, first to run first
    existed,    \* mod_cache_dir_m.existed
    exc,        \* the exception in flight, "none" if none
    result,     \* the tuple returned
    warns,      \* the warnings the call has emitted
    lock,       \* the file cache_dir/lock
    cache,      \* the directories cache_dir/<hex_checksum>
    headers,    \* the header files the sources include
    obs,        \* history: what the call found in the cache
    nbuild,     \* history: build steps the call has invoked
    last,       \* history: the last call that finished
    env,        \* history: what the environment did since then
    dirty,      \* history: the environment acted during the call
    builders,   \* history: who built since the cache was last unused
    log,        \* history: the steps the call has taken, in order
    root,       \* the files link_extension has put into cache_dir itself
    link,       \* history: the calls of link_extension and the last one
    toolchain,  \* the Toolchain object add_library works on
    added,      \* history: the last call of add_library
    jcl,        \* join_continued_lines: its argument and its local variables
    nvcc_toolchain, \* the Toolchain object passed to CudaModule.compile for nvcc
    compiled    \* history: the compile calls of the modules, in order

procVars == <<pc, args, attempts, cleanups, existed, exc, result, warns>>
fsVars == <<lock, cache, headers>>
histVars == <<obs, nbuild, last, env, dirty, builders>>
vars == <<pc, args, attempts, cleanups, existed, exc, result, warns,
          lock, cache, headers, obs, nbuild, last, env, dirty, builders, log,
          root, link, toolchain, added, jcl, nvcc_toolchain, compiled>>

\* What compile_from_string neither reads nor writes.
libVars == <<root, link, toolchain, added, jcl, nvcc_toolchain, compiled>>

\* The call of p has taken the given steps.
Logged(p, steps) == [log EXCEPT ![p] = @ \o steps]

NoArgs == [source_string |-> <<>>, source_name |-> <<>>, abi |-> "",
           name |-> "", object |-> FALSE, cache_dir |-> ""]
NoPath == [dir |-> "", file |-> ""]
NoResult == [hex_checksum |-> "", mod_name |-> "", file_name |-> NoPath,
             recompiled |-> FALSE]
NoObs == [dir |-> "none", info |-> "none", deps |-> "none", src |-> "none"]
NoLast == [args |-> NoArgs, outcome |-> "none", file_name |-> NoPath]
NoLock == [exists |-> FALSE, owner |-> NoProc]
NoLink ==
    [called |-> FALSE, invoked |-> FALSE, objects |-> <<>>, mod_name |-> "",
     cache_dir |-> "", destination |-> NoPath, exc |-> "none"]

\* A toolchain to which no library has been added.
EmptyToolchain ==
    [include_dirs |-> <<>>, library_dirs |-> <<>>, libraries |-> <<>>,
     features |-> {}]
NoAdded ==
    [feature |-> "", include_dirs |-> <<>>, library_dirs |-> <<>>,
     libraries |-> <<>>, before |-> EmptyToolchain]

\* join_continued_lines not called yet.
NoJoin ==
    [at |-> "idle", lines |-> <<>>, it |-> 1, result |-> <<>>,
     append_line |-> FALSE, warned |-> FALSE]

Abis == {"gcc1", "gcc2"}
Units == {UnitAB_C, UnitA_BC, UnitABC}
AllUnits == Units \cup {UnitABD}
Fingerprints ==
    {calculate_hex_checksum(u.source_string, a) : u \in AllUnits, a \in Abis}

\* hex_checksum of the call of p
Checksum(p) == calculate_hex_checksum(args[p].source_string, args[p].abi)

(***************************************************************************)
(* What a call finds in its cache directory, stated apart from the code    *)
(* that inspects it: used by the history variable obs only.                *)
(***************************************************************************)
InfoKind(dir) ==
    IF ~HasFile(dir, "info") THEN "missing"
    ELSE IF dir.files["info"].t = "pickle" THEN "ok"
    ELSE IF dir.files["info"] = EmptyFile THEN "empty"
    ELSE "garbage"

DepsKind(dir, hs) ==
    IF InfoKind(dir) # "ok" THEN "na"
    ELSE LET ds == dir.files["info"].v.dependencies
             I == 1..Len(ds)
         IN  IF \E i \in I : ~hs[ds[i].name].present THEN "missing"
             ELSE IF \E i \in I : /\ hs[ds[i].name].mtime # ds[i].mtime
                                  /\ ~hs[ds[i].name].readable
                  THEN "unreadable"
             ELSE IF \E i \in I : /\ hs[ds[i].name].mtime # ds[i].mtime
                                  /\ get_file_md5sum(hs[ds[i].name].content) # ds[i].md5
                  THEN "changed"
             ELSE IF \E i \in I : hs[ds[i].name].mtime # ds[i].mtime
                  THEN "touched"
             ELSE "same"

SrcKind(dir, source_string) ==
    IF InfoKind(dir) # "ok" THEN "na"
    ELSE LET ns == dir.files["info"].v.source_name
         IN  IF /\ Len(ns) = Len(source_string)
                /\ \A i \in 1..Len(ns) :
                      /\ HasFile(dir, ns[i])
                      /\ dir.files[ns[i]] = Text(source_string[i])
             THEN "same"
             ELSE IF Len(ns) # Len(source_string) THEN "differ_len"
             ELSE "differ"

Observe(dir, hs, source_string) ==
    [dir |-> "present", info |-> InfoKind(dir), deps |-> DepsKind(dir, hs),
     src |-> SrcKind(dir, source_string)]

ObsAbsent == [dir |-> "absent", info |-> "na", deps |-> "na", src |-> "na"]

(***************************************************************************)
(* Initial state: no call in progress, an empty cache directory, header    *)
(* files in place.                                                         *)
(***************************************************************************)
Init ==
    /\ pc = [p \in Procs |-> "idle"]
    /\ args = [p \in Procs |-> NoArgs]
    /\ attempts = [p \in Procs |-> 0]
    /\ cleanups = [p \in Procs |-> <<>>]
    /\ existed = [p \in Procs |-> FALSE]
    /\ exc = [p \in Procs |-> "none"]
    /\ result = [p \in Procs |-> NoResult]
    /\ warns = [p \in Procs |-> {}]
    /\ lock = NoLock
    /\ cache = [f \in Fingerprints |-> NoDir]
    /\ headers = [d \in DepNames |->
          [present |-> TRUE, readable |-> TRUE, mtime |-> 0, content |-> 0]]
    /\ obs = [p \in Procs |-> NoObs]
    /\ nbuild = [p \in Procs |-> 0]
    /\ last = NoLast
    /\ env = "none"
    /\ dirty = [p \in Procs |-> FALSE]
    /\ builders = {}
    /\ log = [p \in Procs |-> <<>>]
    /\ root = NoFiles
    /\ link = NoLink
    /\ toolchain = EmptyToolchain
    /\ added = NoAdded
    /\ jcl = NoJoin
    /\ nvcc_toolchain = EmptyToolchain
    /\ compiled = <<>>

(***************************************************************************)
(* compile_from_string, step by step.                                      *)
(***************************************************************************)
\* A call with the given arguments starts: cleanup_m = CleanupManager().
Call(p, unit, abi, name, object, cache_dir) ==
    /\ pc[p] = "idle"
    /\ pc' = [pc EXCEPT ![p] = "lock"]
    /\ args' = [args EXCEPT ![p] =
                  [source_string |-> unit.source_string,
                   source_name |-> unit.source_name, abi |-> abi,
                   name |-> name, object |-> object, cache_dir |-> cache_dir]]
    /\ builders' = IF \A q \in Procs : pc[q] \in {"idle", "done"}
                   THEN {} ELSE builders
    /\ UNCHANGED <<attempts, cleanups, existed, exc, result, warns>>
    /\ UNCHANGED <<fsVars, obs, nbuild, last, env, dirty>>
    /\ UNCHANGED log
    /\ UNCHANGED libVars

\* CacheLockManager.__init__ with a plausible bug: os.open without O_EXCL,
\* which succeeds whether or not the lock file exists.
AcquireLock_not_exclusive(p) ==
    /\ pc[p] = "lock"
    /\ args[p].cache_dir # NoCaching
    /\ lock' = [exists |-> TRUE, owner |-> p]
    /\ cleanups' = [cleanups EXCEPT ![p] = <<"lock">> \o @]
    /\ pc' = [pc EXCEPT ![p] = "resolve"]
    /\ UNCHANGED <<args, attempts, existed, exc, result, warns>>
    /\ UNCHANGED <<cache, headers, histVars>>
    /\ log' = Logged(p, <<"os.open(lock)">>)
    /\ UNCHANGED libVars

\* CacheLockManager.__init__ with a plausible bug: the branch that takes
\* the lock is skipped, as it is for cache_dir=None, and the call goes on.
AcquireLock_skipped(p) ==
    /\ pc[p] = "lock"
    /\ args[p].cache_dir # NoCaching
    /\ pc' = [pc EXCEPT ![p] = "resolve"]
    /\ UNCHANGED <<args, attempts, cleanups, existed, exc, result, warns>>
    /\ UNCHANGED <<fsVars, histVars>>
    /\ UNCHANGED log
    /\ UNCHANGED libVars

\* CacheLockManager.__init__, an attempt that ends the loop: os.open with
\* O_CREAT | O_EXCL succeeds and the manager registers itself.  With
\* cache_dir=False, "cache_dir is not None" holds and os.path.join raises.
AcquireLock(p) ==
    /\ pc[p] = "lock"
    /\ IF args[p].cache_dir = NoCaching
       THEN /\ exc' = [exc EXCEPT ![p] = "TypeError"]
            /\ pc' = [pc EXCEPT ![p] = "error"]
            /\ UNCHANGED <<lock, cleanups, log>>
       ELSE /\ ~lock.exists
            /\ lock' = [exists |-> TRUE, owner |-> p]
            /\ cleanups' = [cleanups EXCEPT ![p] = <<"lock">> \o @]
            /\ pc' = [pc EXCEPT ![p] = "resolve"]
            /\ log' = Logged(p, <<"os.open(lock)">>)
            /\ UNCHANGED exc
    /\ UNCHANGED <<args, attempts, existed, result, warns>>
    /\ UNCHANGED <<cache, headers, histVars>>
    /\ UNCHANGED libVars

\* CacheLockManager.__init__ with a plausible bug: once attempts > 10 the
\* loop warns and ends, and the call goes on without the lock.
LockBusy_proceeds(p) ==
    /\ pc[p] = "lock"
    /\ args[p].cache_dir # NoCaching
    /\ lock.exists
    /\ attempts[p] < LockWarnAttempts + AttemptSlack
    /\ attempts' = [attempts EXCEPT ![p] = @ + 1]
    /\ IF attempts[p] + 1 > LockWarnAttempts
       THEN /\ warns' = [warns EXCEPT ![p] = @ \cup {"could not obtain lock"}]
            /\ pc' = [pc EXCEPT ![p] = "resolve"]
       ELSE UNCHANGED <<warns, pc>>
    /\ UNCHANGED <<args, cleanups, existed, exc, result>>
    /\ UNCHANGED <<fsVars, histVars>>
    /\ UNCHANGED log
    /\ UNCHANGED libVars

\* CacheLockManager.__init__, an attempt that fails: os.open raises OSError,
\* the process sleeps, counts the attempt, warns once attempts > 10, and
\* goes round the loop again.
LockBusy(p) ==
    /\ pc[p] = "lock"
    /\ args[p].cache_dir # NoCaching
    /\ lock.exists
    /\ attempts[p] < LockWarnAttempts + AttemptSlack
    /\ attempts' = [attempts EXCEPT ![p] = @ + 1]
    /\ warns' = [warns EXCEPT ![p] =
                    IF attempts[p] + 1 > LockWarnAttempts
                    THEN @ \cup {"could not obtain lock"} ELSE @]
    /\ UNCHANGED <<pc, args, cleanups, existed, exc, result>>
    /\ UNCHANGED <<fsVars, histVars>>
    /\ UNCHANGED log
    /\ UNCHANGED libVars

\* ModuleCacheDirManager.__init__ with a plausible bug: register is called
\* after the try statement, whether or not os.mkdir succeeded.
ModuleCacheDirManager_init_always_registers(p) ==
    /\ pc[p] = "resolve"
    /\ cleanups' = [cleanups EXCEPT ![p] = <<"moddir">> \o @]
    /\ IF ~cache[Checksum(p)].exists
       THEN /\ cache' = [cache EXCEPT ![Checksum(p)] = EmptyDir]
            /\ existed' = [existed EXCEPT ![p] = FALSE]
            /\ obs' = [obs EXCEPT ![p] = ObsAbsent]
            /\ log' = Logged(p, <<"mkdir">>)
            /\ pc' = [pc EXCEPT ![p] = "write"]
       ELSE /\ existed' = [existed EXCEPT ![p] = TRUE]
            /\ pc' = [pc EXCEPT ![p] = "check"]
            /\ UNCHANGED <<cache, obs, log>>
    /\ UNCHANGED <<args, attempts, exc, result, warns>>
    /\ UNCHANGED <<lock, headers, nbuild, last, env, dirty, builders>>
    /\ UNCHANGED libVars

\* ModuleCacheDirManager.__init__: os.mkdir(path); the manager registers
\* itself only if it created the directory.
ModuleCacheDirManager_init(p) ==
    /\ pc[p] = "resolve"
    /\ IF ~cache[Checksum(p)].exists
       THEN /\ cache' = [cache EXCEPT ![Checksum(p)] = EmptyDir]
            /\ cleanups' = [cleanups EXCEPT ![p] = <<"moddir">> \o @]
            /\ existed' = [existed EXCEPT ![p] = FALSE]
            /\ obs' = [obs EXCEPT ![p] = ObsAbsent]
            /\ log' = Logged(p, <<"mkdir">>)
            /\ pc' = [pc EXCEPT ![p] = "write"]
       ELSE /\ existed' = [existed EXCEPT ![p] = TRUE]
            /\ pc' = [pc EXCEPT ![p] = "check"]
            /\ UNCHANGED <<cache, cleanups, obs, log>>
    /\ UNCHANGED <<args, attempts, exc, result, warns>>
    /\ UNCHANGED <<lock, headers, nbuild, last, env, dirty, builders>>
    /\ UNCHANGED libVars

\* The tuple compile_from_string returns.
Returned(p, recompiled) ==
    [hex_checksum |-> Checksum(p),
     mod_name |-> mod_name_of(Checksum(p), args[p].name),
     file_name |-> ext_file_of(Checksum(p), args[p].name, args[p].object),
     recompiled |-> recompiled]

\* The lookup with a plausible bug: on a hit the info file is written again
\* with the modification times the dependencies have now.
CacheCheck_refreshes_info(p) ==
    /\ pc[p] = "check"
    /\ LET dir == cache[Checksum(p)]
           li == load_info(dir)
           cs == check_source(li.info.source_name, args[p].source_string, dir)
           warned == IF cs.warned THEN {"hash collision in compiler cache"}
                     ELSE {}
       IN  /\ obs' = [obs EXCEPT ![p] = Observe(dir, headers, args[p].source_string)]
           /\ log' = Logged(p,
                 IF li.status = "_InvalidInfoFileError"
                    THEN <<"load_info", "reset">>
                 ELSE IF li.status # "ok" THEN <<"load_info">>
                 ELSE IF check_deps_raises(li.info.dependencies, headers)
                    THEN <<"load_info", "check_deps">>
                 ELSE IF ~check_deps(li.info.dependencies, headers)
                    THEN <<"load_info", "check_deps">>
                 ELSE <<"load_info", "check_deps", "check_source">>)
           /\ IF li.status = "_InvalidInfoFileError"
              THEN /\ cache' = [cache EXCEPT ![Checksum(p)] = reset(dir)]
                   /\ pc' = [pc EXCEPT ![p] = "write"]
                   /\ UNCHANGED <<exc, result, warns>>
              ELSE IF li.status # "ok"
              THEN /\ exc' = [exc EXCEPT ![p] = li.status]
                   /\ pc' = [pc EXCEPT ![p] = "error"]
                   /\ UNCHANGED <<cache, result, warns>>
              ELSE IF check_deps_raises(li.info.dependencies, headers)
              THEN /\ exc' = [exc EXCEPT ![p] = "OSError"]
                   /\ pc' = [pc EXCEPT ![p] = "error"]
                   /\ UNCHANGED <<cache, result, warns>>
              ELSE IF ~check_deps(li.info.dependencies, headers)
              THEN /\ pc' = [pc EXCEPT ![p] = "write"]
                   /\ UNCHANGED <<cache, exc, result, warns>>
              ELSE IF cs.status # "ok"
              THEN /\ exc' = [exc EXCEPT ![p] = cs.status]
                   /\ warns' = [warns EXCEPT ![p] = @ \cup warned]
                   /\ pc' = [pc EXCEPT ![p] = "error"]
                   /\ UNCHANGED <<cache, result>>
              ELSE IF cs.valid
              THEN /\ result' = [result EXCEPT ![p] = Returned(p, FALSE)]
                   /\ pc' = [pc EXCEPT ![p] = "cleanup"]
                   /\ cache' = [cache EXCEPT ![Checksum(p)] =
                         PutFile(dir, "info", Pickled(SourceInfo(
                            get_dep_structure(DepNames, headers),
                            li.info.source_name)))]
                   /\ UNCHANGED <<exc, warns>>
              ELSE /\ warns' = [warns EXCEPT ![p] = @ \cup warned]
                   /\ pc' = [pc EXCEPT ![p] = "write"]
                   /\ UNCHANGED <<cache, exc, result>>
    /\ UNCHANGED <<args, attempts, cleanups, existed>>
    /\ UNCHANGED <<lock, headers, nbuild, last, env, dirty, builders>>
    /\ UNCHANGED libVars

\* "if mod_cache_dir_m.existed:": load the info file; reset the directory if
\* it is invalid; otherwise check_deps and check_source, and return the
\* cached file if both pass.
CacheCheck(p) ==
    /\ pc[p] = "check"
    /\ LET dir == cache[Checksum(p)]
           li == load_info(dir)
           cs == check_source(li.info.source_name, args[p].source_string, dir)
           warned == IF cs.warned THEN {"hash collision in compiler cache"}
                     ELSE {}
       IN  /\ obs' = [obs EXCEPT ![p] = Observe(dir, headers, args[p].source_string)]
           /\ log' = Logged(p,
                 IF li.status = "_InvalidInfoFileError"
                    THEN <<"load_info", "reset">>
                 ELSE IF li.status # "ok" THEN <<"load_info">>
                 ELSE IF check_deps_raises(li.info.dependencies, headers)
                    THEN <<"load_info", "check_deps">>
                 ELSE IF ~check_deps(li.info.dependencies, headers)
                    THEN <<"load_info", "check_deps">>
                 ELSE <<"load_info", "check_deps", "check_source">>)
           /\ IF li.status = "_InvalidInfoFileError"
              THEN /\ cache' = [cache EXCEPT ![Checksum(p)] = reset(dir)]
                   /\ pc' = [pc EXCEPT ![p] = "write"]
                   /\ UNCHANGED <<exc, result, warns>>
              ELSE IF li.status # "ok"
              THEN /\ exc' = [exc EXCEPT ![p] = li.status]
                   /\ pc' = [pc EXCEPT ![p] = "error"]
                   /\ UNCHANGED <<cache, result, warns>>
              ELSE IF check_deps_raises(li.info.dependencies, headers)
              THEN /\ exc' = [exc EXCEPT ![p] = "OSError"]
                   /\ pc' = [pc EXCEPT ![p] = "error"]
                   /\ UNCHANGED <<cache, result, warns>>
              ELSE IF ~check_deps(li.info.dependencies, headers)
              THEN /\ pc' = [pc EXCEPT ![p] = "write"]
                   /\ UNCHANGED <<cache, exc, result, warns>>
              ELSE IF cs.status # "ok"
              THEN /\ exc' = [exc EXCEPT ![p] = cs.status]
                   /\ warns' = [warns EXCEPT ![p] = @ \cup warned]
                   /\ pc' = [pc EXCEPT ![p] = "error"]
                   /\ UNCHANGED <<cache, result>>
              ELSE IF cs.valid
              THEN /\ result' = [result EXCEPT ![p] = Returned(p, FALSE)]
                   /\ pc' = [pc EXCEPT ![p] = "cleanup"]
                   /\ UNCHANGED <<cache, exc, warns>>
              ELSE /\ warns' = [warns EXCEPT ![p] = @ \cup warned]
                   /\ pc' = [pc EXCEPT ![p] = "write"]
                   /\ UNCHANGED <<cache, exc, result>>
    /\ UNCHANGED <<args, attempts, cleanups, existed>>
    /\ UNCHANGED <<lock, headers, nbuild, last, env, dirty, builders>>
    /\ UNCHANGED libVars

Min(a, b) == IF a < b THEN a ELSE b

\* write_source(source_paths): every source is written to its path.  The
\* loop raises IndexError when there are fewer names than sources, and
\* with io_ok false the operating system fails one of the writes (OSError);
\* the files written before that stay.
WriteSources(p, io_ok) ==
    /\ pc[p] = "write"
    /\ LET n == Len(args[p].source_string)
           m == Len(args[p].source_name)
       IN  \E count \in 0..Min(n, m) :
              /\ io_ok <=> count = Min(n, m)
              /\ cache' = [cache EXCEPT ![Checksum(p)] =
                    write_source(args[p].source_name, args[p].source_string,
                                 count, @)]
              /\ IF count = n
                 THEN /\ pc' = [pc EXCEPT ![p] = "build"]
                      /\ UNCHANGED exc
                 ELSE /\ exc' = [exc EXCEPT ![p] =
                            IF count = m THEN "IndexError" ELSE "OSError"]
                      /\ pc' = [pc EXCEPT ![p] = "error"]
    /\ UNCHANGED <<args, attempts, cleanups, existed, result, warns>>
    /\ UNCHANGED <<lock, headers, histVars>>
    /\ log' = Logged(p, <<"write_source">>)
    /\ UNCHANGED libVars

\* The contents of the files at the given paths, in order.
ReadAll(dir, paths) == [i \in 1..Len(paths) |-> dir.files[paths[i]].s]

\* The build step with a plausible bug: a first failure of the compiler is
\* swallowed and the compiler is run again.
Build_retries(p) ==
    /\ pc[p] = "build"
    /\ LET dir == cache[Checksum(p)]
           ext_file == ext_file_of(Checksum(p), args[p].name, args[p].object)
       IN  \E outcome \in {"built", "failed"} :
              IF outcome = "built"
              THEN /\ \A i \in 1..Len(args[p].source_name) :
                         HasFile(dir, args[p].source_name[i])
                   /\ cache' = [cache EXCEPT ![Checksum(p)] =
                         PutFile(dir, ext_file.file,
                            Artifact(ReadAll(dir, args[p].source_name),
                                     args[p].object))]
                   /\ pc' = [pc EXCEPT ![p] = "persist"]
                   /\ UNCHANGED exc
              ELSE IF nbuild[p] = 0
              THEN UNCHANGED <<cache, pc, exc>>
              ELSE /\ exc' = [exc EXCEPT ![p] =
                         "CompileError: module compilation failed"]
                   /\ pc' = [pc EXCEPT ![p] = "error"]
                   /\ UNCHANGED cache
    /\ nbuild' = [nbuild EXCEPT ![p] = @ + 1]
    /\ builders' = builders \cup {p}
    /\ UNCHANGED <<args, attempts, cleanups, existed, result, warns>>
    /\ UNCHANGED <<lock, headers, obs, last, env, dirty>>
    /\ log' = Logged(p, <<"build">>)
    /\ UNCHANGED libVars

\* toolchain.build_object / toolchain.build_extension(ext_file,
\* source_paths): the compiler runs on the files at source_paths and either
\* writes ext_file or exits nonzero, which raises CompileError; a compiler
\* that fails leaves an older ext_file in place or removes it.
Build(p) ==
    /\ pc[p] = "build"
    /\ LET dir == cache[Checksum(p)]
           ext_file == ext_file_of(Checksum(p), args[p].name, args[p].object)
       IN  \E outcome \in {"built", "failed", "failed_removed"} :
              IF outcome = "built"
              THEN /\ \A i \in 1..Len(args[p].source_name) :
                         HasFile(dir, args[p].source_name[i])
                   /\ cache' = [cache EXCEPT ![Checksum(p)] =
                         PutFile(dir, ext_file.file,
                            Artifact(ReadAll(dir, args[p].source_name),
                                     args[p].object))]
                   /\ pc' = [pc EXCEPT ![p] = "persist"]
                   /\ UNCHANGED exc
              ELSE /\ outcome = "failed_removed" => HasFile(dir, ext_file.file)
                   /\ cache' = [cache EXCEPT ![Checksum(p)] =
                         IF outcome = "failed_removed"
                         THEN DelFile(dir, ext_file.file) ELSE dir]
                   /\ exc' = [exc EXCEPT ![p] =
                         "CompileError: module compilation failed"]
                   /\ pc' = [pc EXCEPT ![p] = "error"]
    /\ nbuild' = [nbuild EXCEPT ![p] = @ + 1]
    /\ builders' = builders \cup {p}
    /\ UNCHANGED <<args, attempts, cleanups, existed, result, warns>>
    /\ UNCHANGED <<lock, headers, obs, last, env, dirty>>
    /\ log' = Logged(p, <<"build">>)
    /\ UNCHANGED libVars

\* toolchain.get_dependencies(source_paths): the headers the sources include.
get_dependencies(source_paths) == DepNames

\* The manifest step with a plausible bug: the dependency scan runs before
\* the info file is opened, so that a scan that fails leaves the info file
\* of the entry as it was.
Persist_scans_first(p, outcome) ==
    /\ pc[p] = "persist"
    /\ LET dir == PutFile(cache[Checksum(p)], "info", EmptyFile)
           depset == get_dependencies(args[p].source_name)
           info == SourceInfo(get_dep_structure(depset, headers),
                              args[p].source_name)
       IN  IF outcome = "scan_failed"
              THEN /\ UNCHANGED cache
                   /\ exc' = [exc EXCEPT ![p] =
                         "CompileError: getting dependencies failed"]
                   /\ pc' = [pc EXCEPT ![p] = "error"]
                   /\ UNCHANGED result
              ELSE IF \E d \in depset :
                         ~headers[d].present \/ ~headers[d].readable
              THEN /\ outcome = "written"
                   /\ cache' = [cache EXCEPT ![Checksum(p)] = dir]
                   /\ exc' = [exc EXCEPT ![p] = "OSError"]
                   /\ pc' = [pc EXCEPT ![p] = "error"]
                   /\ UNCHANGED result
              ELSE IF outcome = "written"
              THEN /\ cache' = [cache EXCEPT ![Checksum(p)] =
                         PutFile(dir, "info", Pickled(info))]
                   /\ result' = [result EXCEPT ![p] = Returned(p, TRUE)]
                   /\ pc' = [pc EXCEPT ![p] = "cleanup"]
                   /\ UNCHANGED exc
              ELSE /\ cache' = [cache EXCEPT ![Checksum(p)] =
                         IF outcome = "write_failed_partial"
                         THEN PutFile(dir, "info", GarbageFile) ELSE dir]
                   /\ exc' = [exc EXCEPT ![p] = "OSError"]
                   /\ pc' = [pc EXCEPT ![p] = "error"]
                   /\ UNCHANGED result
    /\ UNCHANGED <<args, attempts, cleanups, existed, warns>>
    /\ UNCHANGED <<lock, headers, histVars>>
    /\ log' = Logged(p,
          IF outcome = "scan_failed" THEN <<"get_dependencies">>
          ELSE IF \E d \in get_dependencies(args[p].source_name) :
                     ~headers[d].present \/ ~headers[d].readable
             THEN <<"open(info)", "get_dependencies", "os.stat">>
          ELSE <<"open(info)", "get_dependencies", "os.stat", "pickle.dump">>)
    /\ UNCHANGED libVars

\* "if info_path:": the info file is opened for writing, which empties it;
\* then get_dep_structure runs (the dependency scan may fail, os.stat
\* raises for a header that is gone, get_file_md5sum for one that cannot be
\* opened); then the manifest is pickled into the
\* file, which the operating system may fail half way.  outcome is what the
\* toolchain and the operating system do.
Persist(p, outcome) ==
    /\ pc[p] = "persist"
    /\ LET dir == PutFile(cache[Checksum(p)], "info", EmptyFile)
           depset == get_dependencies(args[p].source_name)
           info == SourceInfo(get_dep_structure(depset, headers),
                              args[p].source_name)
       IN  IF outcome = "scan_failed"
              THEN /\ cache' = [cache EXCEPT ![Checksum(p)] = dir]
                   /\ exc' = [exc EXCEPT ![p] =
                         "CompileError: getting dependencies failed"]
                   /\ pc' = [pc EXCEPT ![p] = "error"]
                   /\ UNCHANGED result
              ELSE IF \E d \in depset :
                         ~headers[d].present \/ ~headers[d].readable
              THEN /\ outcome = "written"
                   /\ cache' = [cache EXCEPT ![Checksum(p)] = dir]
                   /\ exc' = [exc EXCEPT ![p] = "OSError"]
                   /\ pc' = [pc EXCEPT ![p] = "error"]
                   /\ UNCHANGED result
              ELSE IF outcome = "written"
              THEN /\ cache' = [cache EXCEPT ![Checksum(p)] =
                         PutFile(dir, "info", Pickled(info))]
                   /\ result' = [result EXCEPT ![p] = Returned(p, TRUE)]
                   /\ pc' = [pc EXCEPT ![p] = "cleanup"]
                   /\ UNCHANGED exc
              ELSE /\ cache' = [cache EXCEPT ![Checksum(p)] =
                         IF outcome = "write_failed_partial"
                         THEN PutFile(dir, "info", GarbageFile) ELSE dir]
                   /\ exc' = [exc EXCEPT ![p] = "OSError"]
                   /\ pc' = [pc EXCEPT ![p] = "error"]
                   /\ UNCHANGED result
    /\ UNCHANGED <<args, attempts, cleanups, existed, warns>>
    /\ UNCHANGED <<lock, headers, histVars>>
    /\ log' = Logged(p,
          IF outcome = "scan_failed" THEN <<"open(info)", "get_dependencies">>
          ELSE IF \E d \in get_dependencies(args[p].source_name) :
                     ~headers[d].present \/ ~headers[d].readable
             THEN <<"open(info)", "get_dependencies", "os.stat">>
          ELSE <<"open(info)", "get_dependencies", "os.stat", "pickle.dump">>)
    /\ UNCHANGED libVars

(***************************************************************************)
(* Cleanup.  A resource is the pair of the lock file and the module cache  *)
(* directory of the call; each manager changes its own part.               *)
(***************************************************************************)
\* CacheLockManager.clean_up with a plausible bug: the file is closed but
\* not unlinked.
CacheLockManager_clean_up_keeps(lk) == lk

\* CacheLockManager.clean_up: os.close(fd); os.unlink(lock_file)
CacheLockManager_clean_up(lk) == NoLock

\* CacheLockManager.error_clean_up with a plausible bug: it releases the
\* lock as clean_up does, which runs once more afterwards.
CacheLockManager_error_clean_up_unlinks(lk) == NoLock

\* CacheLockManager.error_clean_up: pass
CacheLockManager_error_clean_up(lk) == lk

\* ModuleCacheDirManager.clean_up with a plausible bug: it erases the
\* directory, as TempDirManager.clean_up does.
ModuleCacheDirManager_clean_up_erases(dir) == erase_dir(dir)

\* ModuleCacheDirManager.clean_up: pass
ModuleCacheDirManager_clean_up(dir) == dir

\* ModuleCacheDirManager.error_clean_up with a plausible bug: pass, as in
\* the other managers.
ModuleCacheDirManager_error_clean_up_keeps(dir) == dir

\* ModuleCacheDirManager.error_clean_up: _erase_dir(self.path)
ModuleCacheDirManager_error_clean_up(dir) == erase_dir(dir)

RECURSIVE CleanupManager_clean_up(_, _)
\* CleanupManager.clean_up: for c in self.cleanups: c.clean_up()
CleanupManager_clean_up(cs, res) ==
    IF cs = <<>> THEN res
    ELSE CleanupManager_clean_up(Tail(cs),
            IF Head(cs) = "lock"
            THEN [res EXCEPT !.lock = CacheLockManager_clean_up(@)]
            ELSE [res EXCEPT !.dir = ModuleCacheDirManager_clean_up(@)])

\* CleanupManager.error_clean_up with a plausible bug: the loop calls
\* c.clean_up(), so that the lock is released and nothing is erased.
CleanupManager_error_clean_up_calls_clean_up(cs, res) ==
    CleanupManager_clean_up(cs, res)

RECURSIVE CleanupManager_error_clean_up(_, _)
\* CleanupManager.error_clean_up: for c in self.cleanups: c.error_clean_up()
CleanupManager_error_clean_up(cs, res) ==
    IF cs = <<>> THEN res
    ELSE CleanupManager_error_clean_up(Tail(cs),
            IF Head(cs) = "lock"
            THEN [res EXCEPT !.lock = CacheLockManager_error_clean_up(@)]
            ELSE [res EXCEPT !.dir = ModuleCacheDirManager_error_clean_up(@)])

\* The lock file and the module cache directory of the call of p, and the
\* state with them replaced.
Resources(p) ==
    [lock |-> lock,
     dir |-> IF "moddir" \in {cleanups[p][i] : i \in 1..Len(cleanups[p])}
             THEN cache[Checksum(p)] ELSE NoDir]

SetResources(p, res) ==
    /\ lock' = res.lock
    /\ cache' = IF "moddir" \in {cleanups[p][i] : i \in 1..Len(cleanups[p])}
                THEN [cache EXCEPT ![Checksum(p)] = res.dir] ELSE cache

\* The steps of CleanupManager.clean_up and error_clean_up: the method of
\* each registered manager, in the order of self.cleanups.
CleanupLog(method, cs) == [i \in 1..Len(cs) |-> method \o ":" \o cs[i]]

\* "except Exception: cleanup_m.error_clean_up(); raise"
ErrorCleanUp(p) ==
    /\ pc[p] = "error"
    /\ SetResources(p, CleanupManager_error_clean_up(cleanups[p], Resources(p)))
    /\ pc' = [pc EXCEPT ![p] = "cleanup"]
    /\ UNCHANGED <<args, attempts, cleanups, existed, exc, result, warns>>
    /\ UNCHANGED <<headers, histVars>>
    /\ log' = Logged(p, CleanupLog("error_clean_up", cleanups[p]))
    /\ UNCHANGED libVars

\* The managers whose error_clean_up has been called when the one of the
\* module cache directory raises: those up to it in self.cleanups.
UpToModdir(cs) ==
    SubSeq(cs, 1, CHOOSE i \in 1..Len(cs) : cs[i] = "moddir")

\* "except Exception: cleanup_m.error_clean_up(); raise" when _erase_dir
\* raises in ModuleCacheDirManager.error_clean_up: os.unlink fails for an
\* entry of the directory, so that some of them and the directory stay.
\* The loop of CleanupManager.error_clean_up ends there, the OSError takes
\* the place of the exception in flight (which becomes its __context__),
\* and the finally clause runs next.
ErrorCleanUpFails(p) ==
    /\ pc[p] = "error"
    /\ \E i \in 1..Len(cleanups[p]) : cleanups[p][i] = "moddir"
    /\ \E kept \in (SUBSET DOMAIN cache[Checksum(p)].files) \ {{}} :
          cache' = [cache EXCEPT ![Checksum(p)].files =
                       [n \in kept |-> cache[Checksum(p)].files[n]]]
    /\ exc' = [exc EXCEPT ![p] = "OSError: _erase_dir"]
    /\ pc' = [pc EXCEPT ![p] = "cleanup"]
    /\ UNCHANGED <<args, attempts, cleanups, existed, result, warns>>
    /\ UNCHANGED <<lock, headers, histVars>>
    /\ log' = Logged(p, CleanupLog("error_clean_up", UpToModdir(cleanups[p])))
    /\ UNCHANGED libVars

\* How a call ended: it returned, its build step failed, its dependency
\* scan failed, or it raised something else.
Outcome(p) ==
    IF exc[p] = "CompileError: module compilation failed" THEN "build_failed"
    ELSE IF exc[p] = "CompileError: getting dependencies failed"
        THEN "scan_failed"
    ELSE IF exc[p] # "none" THEN "raised"
    ELSE "ok"

\* "finally: cleanup_m.clean_up()", after which the call returns or raises.
CleanUp(p) ==
    /\ pc[p] = "cleanup"
    /\ SetResources(p, CleanupManager_clean_up(cleanups[p], Resources(p)))
    /\ pc' = [pc EXCEPT ![p] = "done"]
    /\ last' = IF dirty[p] THEN NoLast
               ELSE [args |-> args[p], outcome |-> Outcome(p),
                     file_name |-> result[p].file_name]
    /\ env' = "none"
    /\ UNCHANGED <<args, attempts, cleanups, existed, exc, result, warns>>
    /\ UNCHANGED <<headers, obs, nbuild, dirty, builders>>
    /\ log' = Logged(p, CleanupLog("clean_up", cleanups[p]))
    /\ UNCHANGED libVars

\* The caller has the result, or the exception.
Return(p) ==
    /\ pc[p] = "done"
    /\ pc' = [pc EXCEPT ![p] = "idle"]
    /\ args' = [args EXCEPT ![p] = NoArgs]
    /\ attempts' = [attempts EXCEPT ![p] = 0]
    /\ cleanups' = [cleanups EXCEPT ![p] = <<>>]
    /\ existed' = [existed EXCEPT ![p] = FALSE]
    /\ exc' = [exc EXCEPT ![p] = "none"]
    /\ result' = [result EXCEPT ![p] = NoResult]
    /\ warns' = [warns EXCEPT ![p] = {}]
    /\ obs' = [obs EXCEPT ![p] = NoObs]
    /\ nbuild' = [nbuild EXCEPT ![p] = 0]
    /\ dirty' = [dirty EXCEPT ![p] = FALSE]
    /\ UNCHANGED <<fsVars, last, env, builders>>
    /\ log' = [log EXCEPT ![p] = <<>>]
    /\ UNCHANGED libVars

(***************************************************************************)
(* The environment: a process dies, the user deletes a stale lock file,    *)
(* header files are edited, an info file is damaged.                       *)
(***************************************************************************)
\* The process dies while it holds the lock: nothing is cleaned up, and the
\* lock file stays behind.  A new process may later take its place.  The
\* history keeps whether it died in the rebuild: after the lookup and
\* before the info file is opened.
Crash(p) ==
    /\ pc[p] \in {"resolve", "check", "write", "build", "persist", "error",
                  "cleanup"}
    /\ lock.exists /\ lock.owner = p
    /\ lock' = [lock EXCEPT !.owner = NoProc]
    /\ pc' = [pc EXCEPT ![p] = "idle"]
    /\ args' = [args EXCEPT ![p] = NoArgs]
    /\ attempts' = [attempts EXCEPT ![p] = 0]
    /\ cleanups' = [cleanups EXCEPT ![p] = <<>>]
    /\ existed' = [existed EXCEPT ![p] = FALSE]
    /\ exc' = [exc EXCEPT ![p] = "none"]
    /\ result' = [result EXCEPT ![p] = NoResult]
    /\ warns' = [warns EXCEPT ![p] = {}]
    /\ obs' = [obs EXCEPT ![p] = NoObs]
    /\ nbuild' = [nbuild EXCEPT ![p] = 0]
    /\ dirty' = [dirty EXCEPT ![p] = FALSE]
    /\ last' = [args |-> args[p],
                outcome |-> IF pc[p] \in {"write", "build", "persist"}
                            THEN "crashed_in_rebuild" ELSE "crashed",
                file_name |-> NoPath]
    /\ env' = "none"
    /\ UNCHANGED <<cache, headers, builders>>
    /\ log' = [log EXCEPT ![p] = <<>>]
    /\ UNCHANGED libVars

\* The user deletes the lock file of a process that died, as the warning
\* "could not obtain lock -- delete ... if necessary" asks.
RemoveStaleLock ==
    /\ lock.exists /\ lock.owner = NoProc
    /\ lock' = NoLock
    /\ UNCHANGED <<procVars, cache, headers, histVars>>
    /\ UNCHANGED log
    /\ UNCHANGED libVars

\* What the environment did since the last call finished: nothing, touched
\* headers only, or more.
Touched == IF env = "none" THEN "touch" ELSE env

\* The calls in progress have seen the environment act.
Disturbed == [p \in Procs |-> dirty[p] \/ pc[p] \notin {"idle", "done"}]

\* touch: a header gets a new modification time, its content stays.
TouchHeader(d) ==
    /\ headers[d].present
    /\ headers[d].mtime < MaxMtime
    /\ headers' = [headers EXCEPT ![d].mtime = @ + 1]
    /\ env' = Touched
    /\ dirty' = Disturbed
    /\ UNCHANGED <<procVars, lock, cache, obs, nbuild, last, builders>>
    /\ UNCHANGED log
    /\ UNCHANGED libVars

\* A header is edited: new modification time, new content.
ModifyHeader(d) ==
    /\ headers[d].present
    /\ headers[d].mtime < MaxMtime
    /\ \E c \in DepContents \ {headers[d].content} :
          headers' = [headers EXCEPT ![d].mtime = @ + 1, ![d].content = c]
    /\ env' = "other"
    /\ dirty' = Disturbed
    /\ UNCHANGED <<procVars, lock, cache, obs, nbuild, last, builders>>
    /\ UNCHANGED log
    /\ UNCHANGED libVars

\* A header is deleted.
RemoveHeader(d) ==
    /\ headers[d].present
    /\ headers' = [headers EXCEPT ![d].present = FALSE]
    /\ env' = "other"
    /\ dirty' = Disturbed
    /\ UNCHANGED <<procVars, lock, cache, obs, nbuild, last, builders>>
    /\ UNCHANGED log
    /\ UNCHANGED libVars

\* A deleted header is put back, with a new modification time.
RestoreHeader(d) ==
    /\ ~headers[d].present
    /\ headers[d].mtime < MaxMtime
    /\ \E c \in DepContents :
          headers' = [headers EXCEPT ![d] =
             [present |-> TRUE, readable |-> TRUE,
              mtime |-> headers[d].mtime + 1, content |-> c]]
    /\ env' = "other"
    /\ dirty' = Disturbed
    /\ UNCHANGED <<procVars, lock, cache, obs, nbuild, last, builders>>
    /\ UNCHANGED log
    /\ UNCHANGED libVars

\* A header loses its read permission: os.stat still succeeds, open fails.
ProtectHeader(d) ==
    /\ headers[d].present /\ headers[d].readable
    /\ headers' = [headers EXCEPT ![d].readable = FALSE]
    /\ env' = "other"
    /\ dirty' = Disturbed
    /\ UNCHANGED <<procVars, lock, cache, obs, nbuild, last, builders>>
    /\ UNCHANGED log
    /\ UNCHANGED libVars

\* The info file of an entry is deleted, emptied, or overwritten or cut
\* short so that it no longer unpickles.
DamageInfo(f) ==
    /\ HasFile(cache[f], "info")
    /\ \E how \in {"deleted", "emptied", "garbled"} :
          cache' = [cache EXCEPT ![f] =
             IF how = "deleted" THEN DelFile(@, "info")
             ELSE IF how = "emptied" THEN PutFile(@, "info", EmptyFile)
             ELSE PutFile(@, "info", GarbageFile)]
    /\ env' = "other"
    /\ dirty' = Disturbed
    /\ UNCHANGED <<procVars, lock, headers, obs, nbuild, last, builders>>
    /\ UNCHANGED log
    /\ UNCHANGED libVars

(***************************************************************************)
(* link_extension.                                                         *)
(***************************************************************************)
\* The object files a call of link_extension names: the files that
\* compile_from_string(..., "m", ..., object=True) returns for two units.
ObjectPaths ==
    {ext_file_of(calculate_hex_checksum(u.source_string, "gcc1"), "m", TRUE) :
        u \in {UnitABC, UnitABD}}
ObjectLists ==
    {<<a>> : a \in ObjectPaths}
        \cup {os \in {<<a, b>> : a \in ObjectPaths, b \in ObjectPaths} :
                os[1] # os[2]}

\* The file the linker writes.
Linked(objects) == [t |-> "linked", objects |-> objects]

\* The object file at the given path exists.
ObjectAt(path) == path.dir \in Fingerprints /\ HasFile(cache[path.dir], path.file)

\* destination: in cache_dir if it is given, otherwise in the directory of
\* the first object.
link_destination(objects, mod_name, cache_dir) ==
    IF cache_dir # NoCacheDir
    THEN [dir |-> cache_dir, file |-> mod_name \o so_ext]
    ELSE [dir |-> objects[1].dir, file |-> mod_name \o so_ext]

\* What a call of link_extension leaves for the history.
LinkCall(objects, mod_name, cache_dir, invoked, ok) ==
    [called |-> TRUE, invoked |-> invoked, objects |-> objects,
     mod_name |-> mod_name, cache_dir |-> cache_dir,
     destination |-> link_destination(objects, mod_name, cache_dir),
     exc |-> IF ok THEN "none" ELSE "CompileError: module compilation failed"]

\* The file at destination after the linker has written it.
WriteDestination(destination, content) ==
    IF destination.dir = CacheRoot
    THEN /\ root' = (destination.file :> content) @@ root
         /\ UNCHANGED cache
    ELSE /\ cache' = [cache EXCEPT ![destination.dir] =
                        PutFile(@, destination.file, content)]
         /\ UNCHANGED root

\* Whether the file at destination exists.
DestinationExists(destination) ==
    IF destination.dir = CacheRoot THEN destination.file \in DOMAIN root
    ELSE ObjectAt(destination)

\* link_extension with a plausible bug: a destination that exists already
\* is taken as is, without the link step.
link_extension_cached(objects, mod_name, cache_dir, ok) ==
    LET destination == link_destination(objects, mod_name, cache_dir)
    IN  /\ ok => \A i \in 1..Len(objects) : ObjectAt(objects[i])
        /\ IF DestinationExists(destination)
           THEN /\ ok
                /\ link' = LinkCall(objects, mod_name, cache_dir, FALSE, ok)
                /\ UNCHANGED <<root, cache>>
           ELSE /\ link' = LinkCall(objects, mod_name, cache_dir, TRUE, ok)
                /\ IF ok THEN WriteDestination(destination, Linked(objects))
                   ELSE UNCHANGED <<root, cache>>
        /\ UNCHANGED <<procVars, lock, headers, histVars, log, toolchain, added>>
        /\ UNCHANGED <<jcl, nvcc_toolchain, compiled>>

\* link_extension: the destination is computed and toolchain.link_extension
\* is invoked; the linker writes the destination, or exits nonzero (as it
\* does when an object is missing), which raises CompileError.  A call is
\* one step: it waits for nothing.  load_dynamic is not modelled.
link_extension(objects, mod_name, cache_dir, ok) ==
    LET destination == link_destination(objects, mod_name, cache_dir)
    IN  /\ ok => \A i \in 1..Len(objects) : ObjectAt(objects[i])
        /\ link' = LinkCall(objects, mod_name, cache_dir, TRUE, ok)
        /\ IF ok THEN WriteDestination(destination, Linked(objects))
           ELSE UNCHANGED <<root, cache>>
        /\ UNCHANGED <<procVars, lock, headers, histVars, log, toolchain, added>>
        /\ UNCHANGED <<jcl, nvcc_toolchain, compiled>>

(***************************************************************************)
(* Toolchain.add_library.                                                  *)
(***************************************************************************)
\* The features, directory lists and library lists of the calls.
Features == {"boost", "cuda"}
DirLists == {<<>>, <<"a">>, <<"a", "b">>, <<"b", "a">>, <<"a", "a">>}
LibLists == {<<>>, <<"x">>, <<"y", "x">>}

\* x in list
InList(x, list) == \E i \in 1..Len(list) : list[i] = x

RECURSIVE AppendNew(_, _)
\* for d in dirs: if d not in list: list.append(d)
AppendNew(list, dirs) ==
    IF dirs = <<>> THEN list
    ELSE AppendNew(IF InList(Head(dirs), list) THEN list
                   ELSE Append(list, Head(dirs)),
                   Tail(dirs))

\* add_library with a plausible bug: no test of "feature in self.features".
Toolchain_add_library_unguarded(tc, feature, include_dirs, library_dirs, libraries) ==
    [features |-> tc.features \cup {feature},
     include_dirs |-> AppendNew(tc.include_dirs, include_dirs),
     library_dirs |-> AppendNew(tc.library_dirs, library_dirs),
     libraries |-> libraries \o tc.libraries]

\* Toolchain.add_library: the toolchain after the call.
Toolchain_add_library(tc, feature, include_dirs, library_dirs, libraries) ==
    IF feature \in tc.features THEN tc
    ELSE [features |-> tc.features \cup {feature},
          include_dirs |-> AppendNew(tc.include_dirs, include_dirs),
          library_dirs |-> AppendNew(tc.library_dirs, library_dirs),
          libraries |-> libraries \o tc.libraries]

\* A call of toolchain.add_library.
add_library(feature, include_dirs, library_dirs, libraries) ==
    /\ toolchain' = Toolchain_add_library(toolchain, feature, include_dirs,
                                          library_dirs, libraries)
    /\ added' = [feature |-> feature, include_dirs |-> include_dirs,
                 library_dirs |-> library_dirs, libraries |-> libraries,
                 before |-> toolchain]
    /\ UNCHANGED <<procVars, fsVars, histVars, log, root, link>>
    /\ UNCHANGED <<jcl, nvcc_toolchain, compiled>>

(***************************************************************************)
(* join_continued_lines (codepy/tools.py).  A line is a sequence of        *)
(* characters.                                                             *)
(***************************************************************************)
Backslash == "\\"
Newline == "\n"

\* The lines of the calls: with and without a trailing backslash, with a
\* newline after it, with a backslash inside, with two at the end, empty.
Lines ==
    {<<>>, <<"a">>, <<"b">>, <<"a", Backslash>>, <<"b", Backslash>>,
     <<Backslash>>, <<"a", Newline>>, <<"a", Backslash, Newline>>,
     <<Backslash, "a">>, <<"a", Backslash, Backslash>>, <<Newline, Newline>>}

\* A call passes at most MaxLines lines.
MaxLines == 3
LineLists == UNION {[1..n -> Lines] : n \in 0..MaxLines}

RECURSIVE rstrip(_)
\* line.rstrip("\n"): every newline at the end is removed.
rstrip(line) ==
    IF line # <<>> /\ line[Len(line)] = Newline
    THEN rstrip(SubSeq(line, 1, Len(line) - 1))
    ELSE line

\* line.endswith("\\")
endswith(line) == line # <<>> /\ line[Len(line)] = Backslash

\* The body of the loop with a plausible bug: the backslash is not removed.
join_continued_lines_step_keeps_backslash(st, next_line) ==
    LET line == rstrip(next_line)
        append_next_line == endswith(line)
    IN  [st EXCEPT
           !.result = IF st.append_line
                      THEN [@ EXCEPT ![Len(@)] = @ \o line]
                      ELSE Append(@, line),
           !.append_line = append_next_line,
           !.it = @ + 1]

\* The body of the loop of join_continued_lines, for the line next(it)
\* yields: the local variables after it.
join_continued_lines_step(st, next_line) ==
    LET stripped == rstrip(next_line)
        append_next_line == endswith(stripped)
        line == IF append_next_line
                THEN SubSeq(stripped, 1, Len(stripped) - 1) ELSE stripped
    IN  [st EXCEPT
           !.result = IF st.append_line
                      THEN [@ EXCEPT ![Len(@)] = @ \o line]
                      ELSE Append(@, line),
           !.append_line = append_next_line,
           !.it = @ + 1]

\* join_continued_lines(lines) is called: result = [], it = iter(lines),
\* append_line = False.
join_continued_lines(lines) ==
    /\ jcl.at = "idle"
    /\ jcl' = [at |-> "loop", lines |-> lines, it |-> 1, result |-> <<>>,
               append_line |-> FALSE, warned |-> FALSE]
    /\ UNCHANGED <<procVars, fsVars, histVars, log>>
    /\ UNCHANGED <<root, link, toolchain, added, nvcc_toolchain, compiled>>

\* One round of "while True": next(it) yields a line.
JoinLine ==
    /\ jcl.at = "loop" /\ jcl.it <= Len(jcl.lines)
    /\ jcl' = join_continued_lines_step(jcl, jcl.lines[jcl.it])
    /\ UNCHANGED <<procVars, fsVars, histVars, log>>
    /\ UNCHANGED <<root, link, toolchain, added, nvcc_toolchain, compiled>>

\* next(it) raises StopIteration: warn if a continuation is open; return.
JoinStop ==
    /\ jcl.at = "loop" /\ jcl.it > Len(jcl.lines)
    /\ jcl' = [jcl EXCEPT !.at = "returned", !.warned = jcl.append_line]
    /\ UNCHANGED <<procVars, fsVars, histVars, log>>
    /\ UNCHANGED <<root, link, toolchain, added, nvcc_toolchain, compiled>>

\* The caller has the list.
JoinReturn ==
    /\ jcl.at = "returned"
    /\ jcl' = NoJoin
    /\ UNCHANGED <<procVars, fsVars, histVars, log>>
    /\ UNCHANGED <<root, link, toolchain, added, nvcc_toolchain, compiled>>

(***************************************************************************)
(* Specifications.                                                         *)
(***************************************************************************)
PersistOutcomes == {"written", "scan_failed", "write_failed",
                    "write_failed_partial"}

\* One process calls compile_from_string again and again, for units of one
\* checksum, while headers are edited and info files damaged.  The disk
\* does not fail, and the process does not die.
Next ==
    \/ \E p \in SeqProcs, u \in Units : Call(p, u, "gcc1", "m", FALSE, CacheRoot)
    \/ \E p \in SeqProcs : AcquireLock(p)
    \/ \E p \in SeqProcs : ModuleCacheDirManager_init(p)
    \/ \E p \in SeqProcs : CacheCheck(p)
    \/ \E p \in SeqProcs : WriteSources(p, TRUE)
    \/ \E p \in SeqProcs : Build(p)
    \/ \E p \in SeqProcs, o \in {"written", "scan_failed"} : Persist(p, o)
    \/ \E p \in SeqProcs : ErrorCleanUp(p)
    \/ \E p \in SeqProcs : CleanUp(p)
    \/ \E p \in SeqProcs : Return(p)
    \/ \E d \in DepNames : TouchHeader(d)
    \/ \E d \in DepNames : ModifyHeader(d)
    \/ \E d \in DepNames : RemoveHeader(d)
    \/ \E d \in DepNames : RestoreHeader(d)
    \/ \E f \in Fingerprints : DamageInfo(f)

Spec == Init /\ [][Next]_vars

\* One process calls compile_from_string again and again, with caching or
\* with cache_dir=False, and every step that can fail may fail: the
\* toolchain, the dependency scan, the disk while sources or the info file
\* are written; info files are damaged as well.
NextExits ==
    \/ \E p \in SeqProcs, u \in Units, cd \in {CacheRoot, NoCaching} :
          Call(p, u, "gcc1", "m", FALSE, cd)
    \/ \E p \in SeqProcs : AcquireLock(p)
    \/ \E p \in SeqProcs : ModuleCacheDirManager_init(p)
    \/ \E p \in SeqProcs : CacheCheck(p)
    \/ \E p \in SeqProcs, ok \in BOOLEAN : WriteSources(p, ok)
    \/ \E p \in SeqProcs : Build(p)
    \/ \E p \in SeqProcs, o \in PersistOutcomes : Persist(p, o)
    \/ \E p \in SeqProcs : ErrorCleanUp(p)
    \/ \E p \in SeqProcs : CleanUp(p)
    \/ \E p \in SeqProcs : Return(p)
    \/ \E f \in Fingerprints : DamageInfo(f)

SpecExits == Init /\ [][NextExits]_vars

\* Several processes share the cache directory and call compile_from_string
\* for one unit; the toolchain may fail, a process may die while it holds
\* the lock, and the user may delete the lock file it leaves.
NextConc ==
    \/ \E p \in ConcProcs : Call(p, UnitAB_C, "gcc1", "m", FALSE, CacheRoot)
    \/ \E p \in ConcProcs : AcquireLock(p)
    \/ \E p \in ConcProcs : LockBusy(p)
    \/ \E p \in ConcProcs : ModuleCacheDirManager_init(p)
    \/ \E p \in ConcProcs : CacheCheck(p)
    \/ \E p \in ConcProcs : WriteSources(p, TRUE)
    \/ \E p \in ConcProcs : Build(p)
    \/ \E p \in ConcProcs, o \in {"written", "scan_failed"} : Persist(p, o)
    \/ \E p \in ConcProcs : ErrorCleanUp(p)
    \/ \E p \in ConcProcs : CleanUp(p)
    \/ \E p \in ConcProcs : Return(p)
    \/ \E p \in ConcProcs : Crash(p)
    \/ RemoveStaleLock

SpecConc == Init /\ [][NextConc]_vars

\* The calls of the specification SpecKeys: one unit under two names, as
\* extension and as object, under another toolchain identity, split into
\* two sources, and with one byte changed.
Request(unit, abi, name, object) ==
    [unit |-> unit, abi |-> abi, name |-> name, object |-> object]
Requests ==
    {Request(UnitABC, "gcc1", "m", FALSE), Request(UnitABC, "gcc1", "n", FALSE),
     Request(UnitABC, "gcc1", "m", TRUE), Request(UnitABC, "gcc2", "m", FALSE),
     Request(UnitAB_C, "gcc1", "m", FALSE), Request(UnitABD, "gcc1", "m", FALSE)}

\* One process calls compile_from_string again and again with the requests
\* above; the toolchain may fail, nothing else does.
NextKeys ==
    \/ \E p \in SeqProcs, r \in Requests :
          Call(p, r.unit, r.abi, r.name, r.object, CacheRoot)
    \/ \E p \in SeqProcs : AcquireLock(p)
    \/ \E p \in SeqProcs : ModuleCacheDirManager_init(p)
    \/ \E p \in SeqProcs : CacheCheck(p)
    \/ \E p \in SeqProcs : WriteSources(p, TRUE)
    \/ \E p \in SeqProcs : Build(p)
    \/ \E p \in SeqProcs : Persist(p, "written")
    \/ \E p \in SeqProcs : ErrorCleanUp(p)
    \/ \E p \in SeqProcs : CleanUp(p)
    \/ \E p \in SeqProcs : Return(p)

SpecKeys == Init /\ [][NextKeys]_vars

\* One process compiles two units to object files again and again, and at
\* any moment link_extension is called for the object files, with cache_dir
\* or without.
NextLink ==
    \/ \E p \in SeqProcs, u \in {UnitABC, UnitABD} :
          Call(p, u, "gcc1", "m", TRUE, CacheRoot)
    \/ \E p \in SeqProcs : AcquireLock(p)
    \/ \E p \in SeqProcs : ModuleCacheDirManager_init(p)
    \/ \E p \in SeqProcs : CacheCheck(p)
    \/ \E p \in SeqProcs : WriteSources(p, TRUE)
    \/ \E p \in SeqProcs : Build(p)
    \/ \E p \in SeqProcs : Persist(p, "written")
    \/ \E p \in SeqProcs : ErrorCleanUp(p)
    \/ \E p \in SeqProcs : CleanUp(p)
    \/ \E p \in SeqProcs : Return(p)
    \/ \E objects \in ObjectLists, cd \in {CacheRoot, NoCacheDir},
          ok \in BOOLEAN : link_extension(objects, "mod", cd, ok)

SpecLink == Init /\ [][NextLink]_vars

\* Libraries are added to one toolchain, again and again.
NextToolchain ==
    \E feature \in Features, include_dirs \in DirLists,
       library_dirs \in DirLists, libraries \in LibLists :
          add_library(feature, include_dirs, library_dirs, libraries)

SpecToolchain == Init /\ [][NextToolchain]_vars

\* One process calls compile_from_string for two units of one checksum; it
\* may die while it holds the lock, after which the user deletes the lock
\* file and a new process goes on.
NextCrash ==
    \/ \E p \in SeqProcs, u \in {UnitAB_C, UnitA_BC} :
          Call(p, u, "gcc1", "m", FALSE, CacheRoot)
    \/ \E p \in SeqProcs : AcquireLock(p)
    \/ \E p \in SeqProcs : ModuleCacheDirManager_init(p)
    \/ \E p \in SeqProcs : CacheCheck(p)
    \/ \E p \in SeqProcs : WriteSources(p, TRUE)
    \/ \E p \in SeqProcs : Build(p)
    \/ \E p \in SeqProcs : Persist(p, "written")
    \/ \E p \in SeqProcs : ErrorCleanUp(p)
    \/ \E p \in SeqProcs : CleanUp(p)
    \/ \E p \in SeqProcs : Return(p)
    \/ \E p \in SeqProcs : Crash(p)
    \/ RemoveStaleLock

SpecCrash == Init /\ [][NextCrash]_vars

\* One process calls compile_from_string again and again for two units of
\* one fingerprint, while their header is touched, edited, deleted, put
\* back, and made unreadable.
NextDeps ==
    \/ \E p \in SeqProcs, u \in {UnitAB_C, UnitA_BC} :
          Call(p, u, "gcc1", "m", FALSE, CacheRoot)
    \/ \E p \in SeqProcs : AcquireLock(p)
    \/ \E p \in SeqProcs : ModuleCacheDirManager_init(p)
    \/ \E p \in SeqProcs : CacheCheck(p)
    \/ \E p \in SeqProcs : WriteSources(p, TRUE)
    \/ \E p \in SeqProcs : Build(p)
    \/ \E p \in SeqProcs : Persist(p, "written")
    \/ \E p \in SeqProcs : ErrorCleanUp(p)
    \/ \E p \in SeqProcs : CleanUp(p)
    \/ \E p \in SeqProcs : Return(p)
    \/ \E d \in DepNames : TouchHeader(d)
    \/ \E d \in DepNames : ModifyHeader(d)
    \/ \E d \in DepNames : RemoveHeader(d)
    \/ \E d \in DepNames : RestoreHeader(d)
    \/ \E d \in DepNames : ProtectHeader(d)

SpecDeps == Init /\ [][NextDeps]_vars

\* One process calls compile_from_string again and again for two units of
\* one checksum, with caching or with cache_dir=False; every step that can
\* fail may fail, the erasing of the directory in the error cleanup too.
NextTeardown ==
    \/ \E p \in SeqProcs, u \in {UnitAB_C, UnitA_BC},
          cd \in {CacheRoot, NoCaching} : Call(p, u, "gcc1", "m", FALSE, cd)
    \/ \E p \in SeqProcs : AcquireLock(p)
    \/ \E p \in SeqProcs : ModuleCacheDirManager_init(p)
    \/ \E p \in SeqProcs : CacheCheck(p)
    \/ \E p \in SeqProcs, ok \in BOOLEAN : WriteSources(p, ok)
    \/ \E p \in SeqProcs : Build(p)
    \/ \E p \in SeqProcs, o \in PersistOutcomes : Persist(p, o)
    \/ \E p \in SeqProcs : ErrorCleanUp(p)
    \/ \E p \in SeqProcs : ErrorCleanUpFails(p)
    \/ \E p \in SeqProcs : CleanUp(p)
    \/ \E p \in SeqProcs : Return(p)

SpecTeardown == Init /\ [][NextTeardown]_vars

\* join_continued_lines is called again and again.
NextJoin ==
    \/ jcl.at = "idle" /\ \E lines \in LineLists : join_continued_lines(lines)
    \/ JoinLine
    \/ JoinStop
    \/ JoinReturn

SpecJoin == Init /\ [][NextJoin]_vars

(***************************************************************************)
(* Properties.                                                             *)
(***************************************************************************)
\* The call of p is about to return the cached file.
Hit(p) == exc[p] = "none" /\ result[p] = Returned(p, FALSE)

\* The call of p is about to return a file it has just built.
Rebuilt(p) == exc[p] = "none" /\ result[p] = Returned(p, TRUE)

\* The call of p has its outcome and comes after a call that finished
\* undisturbed with the given outcome.
Follows(p, outcome) == pc[p] = "cleanup" /\ last.outcome = outcome

\* C1: a call with the arguments of the call before it, which succeeded,
\* with nothing changed by the environment since, returns recompiled=False
\* and the file_name the call before it returned.
C1_CacheHitIdempotence ==
    \A p \in Procs :
        (Follows(p, "ok") /\ last.args = args[p] /\ env = "none")
            => Hit(p) /\ result[p].file_name = last.file_name

C1_Witness ==
    \E p \in Procs :
        /\ Follows(p, "ok") /\ last.args = args[p] /\ env = "none"
        /\ Hit(p) /\ result[p].file_name = last.file_name

\* C9: when the call finds a loadable manifest of its own sources in which
\* a recorded dependency has both another mtime and another content than
\* recorded, it does not return the cached file: it returns
\* recompiled=True after a build, unless the rebuild raises.
C9_DependencyInvalidation ==
    \A p \in Procs :
        (/\ pc[p] \in {"cleanup", "done"}
         /\ obs[p].info = "ok" /\ obs[p].deps = "changed" /\ obs[p].src = "same")
            => /\ ~Hit(p)
               /\ exc[p] = "none" => Rebuilt(p) /\ nbuild[p] = 1

C9_Witness ==
    \E p \in Procs :
        /\ pc[p] = "done"
        /\ obs[p].info = "ok" /\ obs[p].deps = "changed" /\ obs[p].src = "same"
        /\ Rebuilt(p)

\* C10: after a call that succeeded, if the environment only touched
\* headers (new mtime, same content), any number of times, a call with the
\* same arguments returns recompiled=False.
C10_MtimeOnlyTolerance ==
    \A p \in Procs :
        (Follows(p, "ok") /\ last.args = args[p] /\ env = "touch") => Hit(p)

C10_Witness ==
    \E p \in Procs, d \in DepNames :
        /\ Follows(p, "ok") /\ last.args = args[p] /\ env = "touch"
        /\ obs[p].deps = "touched"
        /\ headers[d].mtime = MaxMtime
        /\ Hit(p)

\* The call of p registered the lock manager: it created the lock file.
HeldLock(p) == \E i \in 1..Len(cleanups[p]) : cleanups[p][i] = "lock"

\* The call of p is in the rebuild: between lookup and manifest.
Building(p) == pc[p] \in {"write", "build", "persist"}

C4_LockReleased ==
    /\ \A p \in Procs :
          (pc[p] = "done" /\ HeldLock(p)) => ~(lock.exists /\ lock.owner = p)
    /\ (\A p \in Procs : pc[p] \in {"idle", "done"}) => ~lock.exists

C4_Witness ==
    \E p \in Procs :
        /\ pc[p] = "done" /\ HeldLock(p) /\ exc[p] = "OSError"
        /\ nbuild[p] = 1
        /\ ~lock.exists

\* C5 as claimed: a call for the checksum of the call before it, whose
\* build step failed, with nothing changed since, does not return the
\* cached file and invokes the build step.
C5_FailureLeavesNoArtifact ==
    \A p \in Procs :
        (/\ Follows(p, "build_failed") /\ env = "none"
         /\ Checksum(p) = calculate_hex_checksum(last.args.source_string,
                                                 last.args.abi))
            => ~Hit(p) /\ nbuild[p] = 1

\* C6 as claimed: a call that finds its entry with the info file missing,
\* empty or not unpicklable does not raise for it, and returns
\* recompiled=True.
C6_CorruptManifestRecovery ==
    \A p \in Procs :
        (/\ pc[p] \in {"cleanup", "done"}
         /\ obs[p].info \in {"missing", "empty", "garbage"})
            => /\ exc[p] # "UnpicklingError"
               /\ exc[p] = "none" => Rebuilt(p)

\* C7 as claimed: a call that finds a loadable manifest, unchanged
\* dependencies and persisted sources other than its own does not raise for
\* it: it warns and returns recompiled=True.
C7_CollisionRecovered ==
    \A p \in Procs :
        (/\ pc[p] \in {"cleanup", "done"}
         /\ obs[p].info = "ok" /\ obs[p].deps \in {"same", "touched"}
         /\ obs[p].src \in {"differ", "differ_len"})
            => /\ exc[p] # "IndexError"
               /\ exc[p] = "none" =>
                     /\ Rebuilt(p)
                     /\ "hash collision in compiler cache" \in warns[p]

\* C8 as claimed: a call with cache_dir=False returns recompiled=True and
\* takes no lock.
C8_NoCacheSentinel ==
    \A p \in Procs :
        (pc[p] = "done" /\ args[p].cache_dir = NoCaching)
            => Rebuilt(p) /\ ~HeldLock(p)

\* The file at the given path of the cache is a compiled artifact.
ArtifactAt(path) ==
    /\ path.dir \in Fingerprints
    /\ HasFile(cache[path.dir], path.file)
    /\ cache[path.dir].files[path.file].t = "binary"

\* C11 as claimed: whenever a call returns, with recompiled True or False,
\* a compiled artifact exists at the file_name it returns.
C11_ArtifactAtReturnedPath ==
    \A p \in Procs :
        (pc[p] = "done" /\ exc[p] = "none") => ArtifactAt(result[p].file_name)

\* hex_checksum of the last call that finished.
LastChecksum == calculate_hex_checksum(last.args.source_string, last.args.abi)

\* C12: calls with different checksums get different module names, entry
\* directories and artifact paths, also under one name; and every artifact
\* in an entry directory was built from sources with the checksum of that
\* directory, so no call wrote over the artifact of another checksum.
C12_FingerprintsKeptApart ==
    /\ \A r1, r2 \in Requests :
          LET h1 == calculate_hex_checksum(r1.unit.source_string, r1.abi)
              h2 == calculate_hex_checksum(r2.unit.source_string, r2.abi)
          IN  h1 # h2 =>
                /\ mod_name_of(h1, r1.name) # mod_name_of(h2, r2.name)
                /\ ext_file_of(h1, r1.name, r1.object).dir
                      # ext_file_of(h2, r2.name, r2.object).dir
                /\ ext_file_of(h1, r1.name, r1.object)
                      # ext_file_of(h2, r2.name, r2.object)
    /\ \A p \in Procs :
          (pc[p] = "cleanup" /\ exc[p] = "none" /\ last.outcome = "ok"
             /\ Checksum(p) # LastChecksum) =>
                /\ result[p].mod_name # mod_name_of(LastChecksum, last.args.name)
                /\ result[p].file_name.dir # last.file_name.dir
                /\ result[p].file_name # last.file_name
    /\ \A f \in Fingerprints :
          \A n \in DOMAIN cache[f].files :
             cache[f].files[n].t = "binary" =>
                \E a \in Abis :
                   calculate_hex_checksum(cache[f].files[n].src, a) = f

C12_Witness ==
    \E p \in Procs :
        /\ pc[p] = "cleanup" /\ Rebuilt(p) /\ last.outcome = "ok"
        /\ Checksum(p) # LastChecksum
        /\ args[p].name = last.args.name
        /\ ArtifactAt(result[p].file_name) /\ ArtifactAt(last.file_name)
        /\ cache[Checksum(p)].files[result[p].file_name.file].src
              = args[p].source_string
        /\ cache[LastChecksum].files[last.file_name.file].src
              = last.args.source_string

Times(p, step) == Cardinality({i \in 1..Len(log[p]) : log[p][i] = step})

\* The steps of cleanup.
CleanupSteps ==
    {CleanupLog(m, <<c>>)[1] :
        m \in {"clean_up", "error_clean_up"}, c \in {"lock", "moddir"}}

\* Every step the call of p took after its first step of the given kind is
\* a step of cleanup.
OnlyCleanupAfter(p, step) ==
    \A i, j \in 1..Len(log[p]) :
        (log[p][i] = step /\ i < j) => log[p][j] \in CleanupSteps

\* C14: a call whose build step failed carries CompileError to the caller;
\* it has invoked the build step once, and after it nothing but cleanup:
\* no dependency scan, and the info file neither opened nor written.
C14_CompileErrorImmediate ==
    \A p \in Procs :
        /\ exc[p] = "CompileError: module compilation failed" =>
              /\ nbuild[p] = 1 /\ Times(p, "build") = 1
              /\ OnlyCleanupAfter(p, "build")
              /\ Times(p, "get_dependencies") = 0
              /\ Times(p, "open(info)") = 0 /\ Times(p, "pickle.dump") = 0
              /\ result[p] = NoResult
        /\ (nbuild[p] > 0 /\ Times(p, "get_dependencies") = 0
               /\ pc[p] \in {"error", "cleanup", "done"}) =>
              exc[p] = "CompileError: module compilation failed"

C14_Witness ==
    \E p \in Procs :
        /\ pc[p] = "done"
        /\ exc[p] = "CompileError: module compilation failed"
        /\ nbuild[p] = 1 /\ Times(p, "write_source") = 1
        /\ Times(p, "clean_up:lock") = 1
        /\ existed[p] /\ HasFile(cache[Checksum(p)], "info")

\* The info files of the entries.
InfoFiles(entries) ==
    [f \in Fingerprints |->
        IF HasFile(entries[f], "info") THEN entries[f].files["info"]
        ELSE EmptyFile]

\* The linked file is at the given path of the given cache.
LinkedAt(path, objects, rootfiles, entries) ==
    IF path.dir = CacheRoot
    THEN path.file \in DOMAIN rootfiles
            /\ rootfiles[path.file] = Linked(objects)
    ELSE HasFile(entries[path.dir], path.file)
            /\ entries[path.dir].files[path.file] = Linked(objects)

\* C15: every call of link_extension invokes the link step; its destination
\* is cache_dir/<mod_name><so_ext> if cache_dir is given and <directory of
\* the first object>/<mod_name><so_ext> otherwise, where the linked file is
\* when the call returns; and the call changes neither the lock file nor an
\* info file nor a call of compile_from_string in progress.
C15_LinkAlwaysInvoked ==
    /\ [](link.called =>
            /\ link.invoked
            /\ link.destination.file = link.mod_name \o so_ext
            /\ link.destination.dir =
                  IF link.cache_dir # NoCacheDir THEN link.cache_dir
                  ELSE link.objects[1].dir)
    /\ [][link' # link =>
            /\ lock' = lock /\ procVars' = procVars /\ log' = log
            /\ InfoFiles(cache') = InfoFiles(cache)
            /\ link'.exc = "none" =>
                  LinkedAt(link'.destination, link'.objects, root', cache')
            /\ link'.exc # "none" => root' = root /\ cache' = cache]_vars

C15_Witness ==
    \E p \in Procs :
        /\ pc[p] = "check" /\ lock.exists /\ lock.owner = p
        /\ link.called /\ link.invoked /\ link.exc = "none"
        /\ link.cache_dir = NoCacheDir /\ Len(link.objects) = 2
        /\ link.objects[1].dir # Checksum(p)
        /\ link.objects[2].dir = Checksum(p)
        /\ LinkedAt(link.destination, link.objects, root, cache)
        /\ link.destination.file \in DOMAIN root

\* No element occurs twice in the list.
NoDuplicates(list) ==
    \A i, j \in 1..Len(list) : list[i] = list[j] => i = j

\* first is the beginning of list.
StartsWith(list, first) ==
    Len(first) <= Len(list) /\ SubSeq(list, 1, Len(first)) = first

\* C16: a call of add_library with a feature the toolchain has already
\* changes nothing; a call with a new feature records the feature, puts
\* its libraries in front of the libraries, and appends the directories
\* that are not yet present, none a second time.
C16_AddLibraryIdempotent ==
    /\ added.feature \in added.before.features => toolchain = added.before
    /\ (added.feature # "" /\ added.feature \notin added.before.features) =>
          /\ toolchain.features = added.before.features \cup {added.feature}
          /\ toolchain.libraries = added.libraries \o added.before.libraries
          /\ StartsWith(toolchain.libraries, added.libraries)
          /\ StartsWith(toolchain.include_dirs, added.before.include_dirs)
          /\ StartsWith(toolchain.library_dirs, added.before.library_dirs)
          /\ \A i \in 1..Len(added.include_dirs) :
                InList(added.include_dirs[i], toolchain.include_dirs)
          /\ \A i \in 1..Len(added.library_dirs) :
                InList(added.library_dirs[i], toolchain.library_dirs)
    /\ NoDuplicates(toolchain.include_dirs)
    /\ NoDuplicates(toolchain.library_dirs)

C16_Witness ==
    /\ added.feature \in added.before.features
    /\ added.libraries # <<>> /\ toolchain.libraries # <<>>
    /\ ~StartsWith(toolchain.libraries, added.libraries)
    /\ \E i \in 1..Len(added.include_dirs) :
          ~InList(added.include_dirs[i], toolchain.include_dirs)
    /\ Len(toolchain.library_dirs) = 2
    /\ toolchain.features = Features

\* The call of p created its entry directory: its os.mkdir succeeded.
Created(p) == Times(p, "mkdir") = 1

\* C17: the error cleanup of a call erases the entry directory of the
\* call, with every file in it, if the call created the directory, and
\* changes nothing in the cache if it did not; so after a call that raised,
\* a directory it created is gone and one it found is still there.
C17_ErrorCleanupErasesOwnDirectory ==
    /\ [][\A p \in Procs :
            (pc[p] = "error" /\ pc'[p] = "cleanup") =>
               IF Created(p)
               THEN cache' = [cache EXCEPT ![Checksum(p)] = NoDir]
               ELSE cache' = cache]_vars
    /\ [](\A p \in Procs :
            (pc[p] \in {"cleanup", "done"} /\ exc[p] # "none") =>
               /\ Created(p) => ~cache[Checksum(p)].exists
               /\ existed[p] => cache[Checksum(p)].exists)

C17_Witness ==
    \E p \in Procs :
        /\ pc[p] = "cleanup" /\ exc[p] = "OSError"
        /\ Created(p) /\ Times(p, "write_source") = 1
        /\ Times(p, "build") = 1 /\ Times(p, "pickle.dump") = 1
        /\ Times(p, "error_clean_up:moddir") = 1
        /\ cache[Checksum(p)] = NoDir

\* C18 as claimed: the lookup of a call that repeats a call whose process
\* died in the rebuild, before the info file was written, does not return
\* the cached file.
C18_NoHitAfterCrashInRebuild ==
    \A p \in Procs :
        (/\ pc[p] = "cleanup" /\ last.outcome = "crashed_in_rebuild"
         /\ env = "none" /\ args[p] = last.args)
            => ~Hit(p)

\* C19: a call that returns the cached file has invoked neither the build
\* step nor the dependency scan, has written no source and no info file,
\* and none of its steps has changed the cache: the source copies, the
\* artifact and the info file with its recorded modification times are
\* what they were.
C19_HitLeavesEntryUntouched ==
    /\ [](\A p \in Procs :
            Hit(p) =>
               /\ nbuild[p] = 0 /\ Times(p, "build") = 0
               /\ Times(p, "get_dependencies") = 0
               /\ Times(p, "write_source") = 0 /\ Times(p, "reset") = 0
               /\ Times(p, "open(info)") = 0 /\ Times(p, "pickle.dump") = 0
               /\ Times(p, "mkdir") = 0)
    /\ [][\A p \in Procs :
            (/\ pc'[p] # pc[p]
             /\ \/ Hit(p)'
                \/ pc[p] \in {"lock", "resolve"} /\ cache[Checksum(p)].exists)
               => cache' = cache /\ headers' = headers]_vars

C19_Witness ==
    \E p \in Procs :
        /\ pc[p] = "done" /\ Hit(p) /\ obs[p].deps = "touched"
        /\ ArtifactAt(result[p].file_name)
        /\ cache[Checksum(p)].files["info"].v.dependencies[1].mtime
              # headers[1].mtime

\* The call of p looked up an entry with a loadable info file.
Validated(p) ==
    /\ pc[p] \in {"write", "build", "persist", "error", "cleanup", "done"}
    /\ obs[p].dir = "present" /\ obs[p].info = "ok"

\* C20 as claimed: the lookup returns the cached file exactly if every
\* recorded dependency has its recorded mtime or else its recorded md5 and
\* every recorded source file holds the source of the call; and a recorded
\* dependency that is gone or cannot be read makes the call rebuild: the
\* lookup raises nothing for it.
C20_ValidationIff ==
    \A p \in Procs :
        Validated(p) =>
           /\ Hit(p) <=> (obs[p].deps \in {"same", "touched"}
                             /\ obs[p].src = "same")
           /\ (obs[p].deps \in {"missing", "unreadable"} /\ nbuild[p] = 0)
                 => exc[p] = "none"

\* The places of the given step in the log of the call of p.
Places(p, step) == {i \in 1..Len(log[p]) : log[p][i] = step}

\* In the call of p every step a comes before every step b.
Before(p, a, b) == \A i \in Places(p, a), j \in Places(p, b) : i < j

\* The managers the call of p has registered, and the step that registers
\* each: the lock manager after os.open, the directory manager after mkdir.
Registered(p) == {cleanups[p][i] : i \in 1..Len(cleanups[p])}
RegisteredBy(c) == IF c = "lock" THEN "os.open(lock)" ELSE "mkdir"

\* C21 as claimed: the teardowns of a call run in the reverse order of
\* registration, the lock last; in a call that raises, the error teardown
\* of every registered manager runs, before every always-run teardown;
\* every always-run teardown runs whether or not an error teardown raised;
\* and the exception that was raised first is the one the caller gets.
C21_CleanupOrdering ==
    /\ [](\A p \in Procs :
            pc[p] = "done" =>
               /\ \A c \in Registered(p) : Times(p, "clean_up:" \o c) = 1
               /\ \A c, d \in Registered(p) :
                     Before(p, RegisteredBy(c), RegisteredBy(d)) /\ c # d =>
                        /\ Before(p, "clean_up:" \o d, "clean_up:" \o c)
                        /\ Before(p, "error_clean_up:" \o d,
                                  "error_clean_up:" \o c)
               /\ "lock" \in Registered(p) =>
                     log[p][Len(log[p])] = "clean_up:lock"
               /\ exc[p] # "none" =>
                     \A c, d \in Registered(p) :
                        /\ Times(p, "error_clean_up:" \o c) = 1
                        /\ Before(p, "error_clean_up:" \o c, "clean_up:" \o d)
               /\ exc[p] = "none" =>
                     \A c \in Registered(p) :
                        Times(p, "error_clean_up:" \o c) = 0)
    /\ [][\A p \in Procs :
            (exc[p] # "none" /\ pc'[p] # "idle") => exc'[p] = exc[p]]_vars

\* C22 as claimed: a call whose ordered list of sources differs from that
\* of the call before it, under one toolchain identity, has another
\* checksum; and, nothing but compile_from_string writing to the cache, no
\* call emits the collision warning of check_source.
C22_FingerprintSeparatesUnits ==
    \A p \in Procs :
        /\ (/\ pc[p] \in {"cleanup", "done"} /\ last.outcome = "ok"
            /\ args[p].abi = last.args.abi
            /\ args[p].source_string # last.args.source_string)
              => Checksum(p) # LastChecksum
        /\ "hash collision in compiler cache" \notin warns[p]

\* C23: a call whose dependency scan failed had built once, raises
\* CompileError and returns nothing; after its cleanup the entry is gone if
\* the call created it and has no loadable info file if the call found it;
\* and the next call for that checksum is not a hit: it rebuilds, unless
\* it raises in turn.
C23_ScanFailureLeavesNoHit ==
    \A p \in Procs :
        /\ exc[p] = "CompileError: getting dependencies failed" =>
              /\ result[p] = NoResult
              /\ Times(p, "build") = 1 /\ Times(p, "pickle.dump") = 0
              /\ pc[p] \in {"cleanup", "done"} =>
                    IF Created(p) THEN ~cache[Checksum(p)].exists
                    ELSE load_info(cache[Checksum(p)]).status # "ok"
        /\ (Follows(p, "scan_failed") /\ Checksum(p) = LastChecksum) =>
              /\ ~Hit(p)
              /\ exc[p] = "none" => Rebuilt(p) /\ nbuild[p] = 1

C23_Witness ==
    \E p \in Procs :
        /\ Follows(p, "scan_failed") /\ Checksum(p) = LastChecksum
        /\ env = "none" /\ args[p] = last.args
        /\ obs[p].dir = "present" /\ obs[p].info = "empty"
        /\ HasFile(cache[Checksum(p)], "m.so")
        /\ Rebuilt(p)

\* The call of p is between lock acquisition and the end of its error
\* cleanup.
InCall(p) == pc[p] \in {"resolve", "check", "write", "build", "persist", "error"}

Racing(p, q) ==
    /\ p # q /\ pc[p] # "idle" /\ pc[q] # "idle"
    /\ Checksum(p) = Checksum(q)
    /\ attempts[p] > 0 \/ attempts[q] > 0

\* C25 as claimed: of two overlapping calls for one checksum only one
\* creates the entry directory; the other finds it.
C25_ExactlyOneCreates ==
    \A p, q \in Procs : Racing(p, q) => ~(Created(p) /\ Created(q))

\* C25 as amended: os.mkdir succeeds exactly if the directory is not
\* there; the call then has existed=False and has registered the erase,
\* and otherwise existed=True, nothing registered, and the lookup next.  At
\* any time at most one call in progress has the erase registered, a call
\* with existed=True changes nothing in its error cleanup, and of two
\* overlapping calls both create the directory only if the first of them
\* raised, its error cleanup having erased the directory under the lock.
C25_CreationArbitrated ==
    /\ [][\A p \in Procs :
            (pc[p] = "resolve" /\ pc'[p] \notin {"resolve", "idle"}) =>
               IF cache[Checksum(p)].exists
               THEN /\ existed'[p] /\ pc'[p] = "check"
                    /\ cleanups'[p] = cleanups[p] /\ cache' = cache
               ELSE /\ ~existed'[p] /\ pc'[p] = "write"
                    /\ cleanups'[p] = <<"moddir">> \o cleanups[p]
                    /\ cache' = [cache EXCEPT ![Checksum(p)] = EmptyDir]]_vars
    /\ [][\A p \in Procs :
            (existed[p] /\ pc[p] = "error" /\ pc'[p] = "cleanup")
               => cache' = cache]_vars
    /\ [](\A p, q \in Procs :
            (p # q /\ InCall(p) /\ InCall(q)) =>
               ~("moddir" \in Registered(p) /\ "moddir" \in Registered(q)))
    /\ [](\A p \in Procs :
            /\ existed[p] => "moddir" \notin Registered(p) /\ ~Created(p)
            /\ Created(p) <=> "moddir" \in Registered(p))
    /\ [](\A p, q \in Procs :
            (Racing(p, q) /\ Created(p) /\ Created(q)) =>
               \/ pc[p] = "done" /\ exc[p] # "none"
               \/ pc[q] = "done" /\ exc[q] # "none")

C25_Witness ==
    \E p, q \in Procs :
        /\ Racing(p, q) /\ attempts[p] > 0
        /\ pc[q] = "done" /\ exc[q] # "none" /\ Created(q)
        /\ pc[p] = "cleanup" /\ Created(p) /\ Rebuilt(p)

\* A line of the input without its newlines; whether it is continued; and
\* without its one backslash at the end if it is.
Content(i) == rstrip(jcl.lines[i])
Continued(i) ==
    Content(i) # <<>> /\ Content(i)[Len(Content(i))] = Backslash
Body(i) ==
    IF Continued(i) THEN SubSeq(Content(i), 1, Len(Content(i)) - 1)
    ELSE Content(i)

\* The last lines of the runs: the lines that are not continued, and the
\* last line of the input.
RunEnds ==
    {i \in 1..Len(jcl.lines) : ~Continued(i) \/ i = Len(jcl.lines)}

\* The last and the first line of the k-th run.
RunEnd(k) ==
    CHOOSE i \in RunEnds : Cardinality({j \in RunEnds : j <= i}) = k
RunStart(k) == IF k = 1 THEN 1 ELSE RunEnd(k - 1) + 1

RECURSIVE Joined(_, _)
\* The bodies of the lines i..j, one after the other.
Joined(i, j) == IF i > j THEN <<>> ELSE Body(i) \o Joined(i + 1, j)

C27_CacheSoundness ==
    \A p \in Procs :
        (pc[p] = "done" /\ Hit(p)) =>
           /\ ArtifactAt(result[p].file_name)
           /\ LET artifact == cache[result[p].file_name.dir]
                                  .files[result[p].file_name.file]
              IN  /\ artifact.src = args[p].source_string
                  /\ artifact.object = args[p].object

\* The call of p is between lock acquisition and lock release.
Locked(p) ==
    pc[p] \in {"resolve", "check", "write", "build", "persist", "error",
               "cleanup"}

\* C28: a call passes lock acquisition only in a step in which it creates
\* the lock file, which was not there; a lock file whose creator is alive
\* is deleted only by its creator, in the cleanup of the call that created
\* it; and two processes are never both between acquisition and release:
\* a process that is there is the creator of the lock file that exists.
C28_StrictLockOwnership ==
    /\ [][\A p \in Procs :
            (pc[p] = "lock" /\ pc'[p] = "resolve") =>
               /\ ~lock.exists
               /\ lock' = [exists |-> TRUE, owner |-> p]
               /\ HeldLock(p)']_vars
    /\ [][(lock.exists /\ lock' # lock /\ lock.owner # NoProc) =>
            \E p \in Procs :
               /\ lock.owner = p /\ HeldLock(p)
               /\ \/ pc[p] = "cleanup" /\ pc'[p] = "done" /\ ~lock'.exists
                  \/ pc'[p] = "idle" /\ lock' = [lock EXCEPT !.owner = NoProc]]_vars
    /\ [](\A p \in Procs :
            Locked(p) => HeldLock(p) /\ lock = [exists |-> TRUE, owner |-> p])
    /\ [](\A p, q \in Procs : (Locked(p) /\ Locked(q)) => p = q)

C28_Witness ==
    \E p, q \in Procs :
        /\ p # q
        /\ pc[q] = "done" /\ HeldLock(q) /\ exc[q] # "none"
        /\ Locked(p) /\ attempts[p] > 0 /\ pc[p] = "build"
        /\ lock = [exists |-> TRUE, owner |-> p]

\* C29: the error cleanup of a call that created its entry directory
\* erases the directory while the call holds the lock and no other call
\* is past lock acquisition; when such a call releases the lock the
\* directory is gone and stays untouched by the release; and a process
\* that, holding the lock, looks for an entry directory that does not
\* exist finds nothing and creates the entry itself.
C29_ErasedBeforeRelease ==
    /\ [][\A p \in Procs :
            (pc[p] = "error" /\ pc'[p] = "cleanup" /\ Created(p)) =>
               /\ cache' = [cache EXCEPT ![Checksum(p)] = NoDir]
               /\ lock = [exists |-> TRUE, owner |-> p] /\ lock' = lock
               /\ \A q \in Procs \ {p} : ~Locked(q)]_vars
    /\ [][\A p \in Procs :
            (/\ Created(p) /\ exc[p] # "none"
             /\ lock.exists /\ lock.owner = p /\ ~lock'.exists) =>
               /\ Before(p, "error_clean_up:moddir", "clean_up:lock")'
               /\ Times(p, "error_clean_up:moddir") = 1
               /\ ~cache[Checksum(p)].exists /\ cache' = cache]_vars
    /\ [][\A q \in Procs :
            (/\ pc[q] = "resolve" /\ pc'[q] \in {"check", "write"}
             /\ ~cache[Checksum(q)].exists) =>
               /\ lock = [exists |-> TRUE, owner |-> q]
               /\ ~existed'[q] /\ Created(q)'
               /\ obs'[q] = ObsAbsent]_vars

C29_Witness ==
    \E p, q \in Procs :
        /\ p # q /\ Checksum(p) = Checksum(q)
        /\ pc[p] = "done" /\ Created(p) /\ last.outcome = Outcome(p)
        /\ exc[p] = "CompileError: module compilation failed"
        /\ pc[q] = "write" /\ attempts[q] > 0
        /\ Created(q) /\ obs[q] = ObsAbsent
        /\ cache[Checksum(q)] = EmptyDir

(***************************************************************************)
(* BoostPythonModule.compile (codepy/bpl.py) and CudaModule.compile        *)
(* (codepy/cuda.py).  Both work on replace(toolchain): a new Toolchain     *)
(* whose fields are bound to the objects the caller's fields are bound to. *)
(* The build itself is compile_from_string, modelled above; here the       *)
(* toolchain it is given is recorded.                                      *)
(***************************************************************************)
MaxCompiles == 3

\* What add_boost_python and add_cuda pass to add_library.
BoostPython ==
    [feature |-> "boost-python", include_dirs |-> <<>>, library_dirs |-> <<>>,
     libraries |-> <<"boost_python", "python">>]
Cuda ==
    [feature |-> "cuda", include_dirs |-> <<"cuda/include">>,
     library_dirs |-> <<"cuda/lib", "cuda/lib64", "cuda/lib", "cuda/lib64">>,
     libraries |-> <<"cuda", "cudart">>]

add_boost_python(tc) ==
    Toolchain_add_library(tc, BoostPython.feature, BoostPython.include_dirs,
                          BoostPython.library_dirs, BoostPython.libraries)
add_cuda(tc) ==
    Toolchain_add_library(tc, Cuda.feature, Cuda.include_dirs,
                          Cuda.library_dirs, Cuda.libraries)

\* The caller's toolchain after add_library has worked on its replace()
\* copy: features.add and the appends to include_dirs and library_dirs
\* change the set and the lists both objects refer to; libraries is bound
\* to a new list on the copy only.
SharedWith(caller, copy) ==
    [caller EXCEPT !.features = copy.features,
                   !.include_dirs = copy.include_dirs,
                   !.library_dirs = copy.library_dirs]

\* GCCToolchain._cmdline([]), the part of abi_id the toolchain's libraries
\* enter: -I include_dirs, -L library_dirs, -l libraries.
cmdline(tc) == <<tc.include_dirs, tc.library_dirs, tc.libraries>>

\* BoostPythonModule(...).compile(toolchain)
BoostPythonModule_compile ==
    /\ Len(compiled) < MaxCompiles
    /\ LET built == add_boost_python(toolchain)
       IN  /\ toolchain' = SharedWith(toolchain, built)
           /\ compiled' = Append(compiled,
                  [module |-> "BoostPythonModule",
                   given |-> toolchain, host_toolchain |-> built,
                   nvcc_given |-> nvcc_toolchain,
                   nvcc_toolchain |-> nvcc_toolchain])
    /\ UNCHANGED <<procVars, fsVars, histVars, log, root, link, added, jcl,
                   nvcc_toolchain>>

\* CudaModule(...).compile(host_toolchain, nvcc_toolchain)
CudaModule_compile ==
    /\ Len(compiled) < MaxCompiles
    /\ LET host == add_cuda(add_boost_python(toolchain))
           nvcc == add_cuda(nvcc_toolchain)
       IN  /\ toolchain' = SharedWith(toolchain, host)
           /\ nvcc_toolchain' = SharedWith(nvcc_toolchain, nvcc)
           /\ compiled' = Append(compiled,
                  [module |-> "CudaModule",
                   given |-> toolchain, host_toolchain |-> host,
                   nvcc_given |-> nvcc_toolchain, nvcc_toolchain |-> nvcc])
    /\ UNCHANGED <<procVars, fsVars, histVars, log, root, link, added, jcl>>

\* The caller sets its toolchain up, then compiles modules with it, again
\* and again.
NextModules ==
    \/ /\ compiled = <<>>
       /\ \E feature \in Features, include_dirs \in {<<>>, <<"a">>},
             library_dirs \in {<<>>, <<"a">>}, libraries \in LibLists :
                add_library(feature, include_dirs, library_dirs, libraries)
    \/ BoostPythonModule_compile
    \/ CudaModule_compile

SpecModules == Init /\ [][NextModules]_vars

\* C30 as claimed: a compile call leaves the caller's toolchains as it got
\* them, with the same features, include_dirs, library_dirs and libraries,
\* and every two compile calls of one kind of module with the same
\* toolchain object build with the same libraries and the same command
\* line in abi_id.
C30_CallerToolchainUntouched ==
    /\ \A i \in 1..Len(compiled) :
          /\ compiled[i].given =
                (IF i < Len(compiled) THEN compiled[i + 1].given
                 ELSE toolchain)
          /\ compiled[i].nvcc_given =
                (IF i < Len(compiled) THEN compiled[i + 1].nvcc_given
                 ELSE nvcc_toolchain)
    /\ \A i, j \in 1..Len(compiled) :
          compiled[i].module = compiled[j].module =>
             /\ compiled[i].host_toolchain.libraries =
                   compiled[j].host_toolchain.libraries
             /\ cmdline(compiled[i].host_toolchain) =
                   cmdline(compiled[j].host_toolchain)
             /\ cmdline(compiled[i].nvcc_toolchain) =
                   cmdline(compiled[j].nvcc_toolchain)
====
